---------------------------- MODULE Spec2Model ----------------------------
(***************************************************************************)
(* A model of the playlist generator: the stable sort and its comparators  *)
(* (lib/sort.js), the string clean-up helpers (lib/util.js), the Track     *)
(* entry and its search fallback chain (lib/track.js), the Album entry     *)
(* (lib/album.js) and the Collection that dispatches a queue of entries    *)
(* (lib/collection.js).                                                    *)
(*                                                                         *)
(* Strings are sequences of characters (each character a one-token         *)
(* string).  A promise that has settled is a record: the code's            *)
(* resolve/reject is the field "ok"; an exception thrown inside a then     *)
(* callback is a rejection, as in JavaScript.                              *)
(***************************************************************************)
EXTENDS Integers, Sequences, FiniteSets, TLC

VARIABLES
    arr,        \* sort: the array handed to sort()
    fn,         \* sort: the comparison function handed to sort()
    sorted,     \* sort: what sort() returned (or that it threw)
    spc,        \* sort: "input" before the call, "done" after it
    trk,        \* track: the Track object
    reqs,       \* track: the catalog requests issued so far, in order
    last,       \* track: the last catalog response and the stage it answered
    catalog,    \* the catalog: the track identifiers it knows, the tracks it returns
    entries,    \* collection: the entries of the collection's queue
    sources,    \* collection: the dispatched entries, kept when the queue is replaced
    settled,    \* collection: the positions of the entries in the order they settled
    cpc,        \* collection: "new", "dispatching", then "done"
    opts,       \* pipeline: the collection's options
    hist,       \* pipeline: the stages started and ended, in order
    ppc,        \* pipeline: the stage to run next and the property fetch in flight
    output      \* pipeline: what execute() resolved with

sortVars == <<arr, fn, sorted, spc>>
trackVars == <<trk, reqs, last>>
collVars == <<entries, sources, settled, cpc>>
pipeVars == <<opts, hist, ppc, output>>
vars == <<arr, fn, sorted, spc, trk, reqs, last, catalog, entries, sources, settled, cpc,
          opts, hist, ppc, output>>

(***************************************************************************)
(* Bounds of the model.                                                    *)
(***************************************************************************)
MaxArr == 3          \* longest array handed to sort()
MaxItems == 2        \* most items in one catalog response
MaxEntries == 3      \* most entries in the collection's queue
MaxQueue == 3        \* most entries of the collection whose pipeline is run
MaxLen == 3          \* longest queue a queue operation is applied to
MaxArtists == 3      \* most related artists in one catalog response
PageSize == 2        \* most items in one page of a paged catalog response
MaxLines == 2        \* most entries of a collection that is executed from its lines
MaxPages == 3        \* most pages the catalog returns a listing in

(***************************************************************************)
(* Generic helpers.                                                        *)
(***************************************************************************)
None == <<>>
Some(x) == <<x>>

RECURSIVE SeqsUpTo(_, _)
SeqsUpTo(S, n) ==
    IF n = 0 THEN {<<>>}
    ELSE LET shorter == SeqsUpTo(S, n - 1)
         IN  shorter \cup {Append(s, x) : s \in {t \in shorter : Len(t) = n - 1}, x \in S}

Range(s) == {s[i] : i \in 1..Len(s)}

IsPermutation(s, t) ==
    /\ Len(s) = Len(t)
    /\ \E p \in [1..Len(s) -> 1..Len(s)] :
          /\ \A i, j \in 1..Len(s) : i # j => p[i] # p[j]
          /\ \A i \in 1..Len(s) : t[i] = s[p[i]]

(***************************************************************************)
(* lib/util.js: string clean-up.  A character is a token; the classes      *)
(* below are the ones the regular expressions of util.js tell apart.       *)
(***************************************************************************)
LowerLetters == {"a", "b", "c", "e"}
UpperLetters == {"A"}
Digits == {"1"}
WordChars == LowerLetters \cup UpperLetters \cup Digits \cup {"_"}     \* \w
UnicodeLetters == {"e_acute"}                                         \* \p{L} outside \w
Whitespace == {" ", "tab"}                                            \* \s

\* "".trim()
RECURSIVE TrimLeft(_)
TrimLeft(s) == IF Len(s) > 0 /\ s[1] \in Whitespace THEN TrimLeft(Tail(s)) ELSE s

RECURSIVE TrimRight(_)
TrimRight(s) ==
    IF Len(s) > 0 /\ s[Len(s)] \in Whitespace THEN TrimRight(SubSeq(s, 1, Len(s) - 1)) ELSE s

Trim(s) == TrimRight(TrimLeft(s))

RECURSIVE FlatMap(_, _)
FlatMap(Op(_), s) == IF Len(s) = 0 THEN <<>> ELSE Op(s[1]) \o FlatMap(Op, Tail(s))

\* util.replacePunctuation, one character
ReplacePunctuationChar(c) ==
    CASE c \in {"lsquo", "rsquo", "acute"} -> <<"'">>
      [] c \in {"ldquo", "rdquo", "dprime"} -> <<"dquote">>
      [] c \in {"minus", "bullet", "middot", "blacksquare", "endash", "horbar", "emdash"} -> <<"-">>
      [] c = "ellipsis" -> <<".", ".", ".">>
      [] OTHER -> <<c>>

\* util.replacePunctuation
ReplacePunctuation(s) == FlatMap(ReplacePunctuationChar, s)

\* str.replace(/[\s]+/g, " ") : every run of whitespace becomes one space
RECURSIVE CollapseWhitespace(_)
CollapseWhitespace(s) ==
    IF Len(s) = 0 THEN <<>>
    ELSE IF s[1] \in Whitespace
    THEN <<" ">> \o CollapseWhitespace(TrimLeft(s))
    ELSE <<s[1]>> \o CollapseWhitespace(Tail(s))

\* util.stripWhitespace
StripWhitespace(s) == CollapseWhitespace(Trim(s))

\* util.normalize
Normalize(s) == StripWhitespace(ReplacePunctuation(s))

\* util.stripPunctuation(str, keep): drops what is not kept, whitespace, \w or a letter
StripPunctuation(s, keep) ==
    SelectSeq(s, LAMBDA c : c \in keep \cup Whitespace \cup WordChars \cup UnicodeLetters)

\* str.replace(/X.*/, "X") : everything after the first X goes
RECURSIVE CutAfterFirst(_, _)
CutAfterFirst(s, x) ==
    IF Len(s) = 0 THEN <<>>
    ELSE IF s[1] = x THEN <<x>>
    ELSE <<s[1]>> \o CutAfterFirst(Tail(s), x)

\* the least index of x in s, 0 when there is none
IndexOf(s, x) ==
    IF \E i \in 1..Len(s) : s[i] = x
    THEN CHOOSE i \in 1..Len(s) : s[i] = x /\ \A j \in 1..(i - 1) : s[j] # x
    ELSE 0

\* str.replace(/O[^C]*C/g, "") : every group from an O to the next C goes
RECURSIVE RemoveGroups(_, _, _)
RemoveGroups(s, o, c) ==
    IF Len(s) = 0 THEN <<>>
    ELSE IF s[1] = o /\ IndexOf(Tail(s), c) > 0
    THEN RemoveGroups(SubSeq(s, IndexOf(Tail(s), c) + 2, Len(s)), o, c)
    ELSE <<s[1]>> \o RemoveGroups(Tail(s), o, c)

\* str.replace(/^[0-9]+\. /, "") : a leading line number goes
RECURSIVE DropDigits(_)
DropDigits(s) == IF Len(s) > 0 /\ s[1] \in Digits THEN DropDigits(Tail(s)) ELSE s

StripLineNumber(s) ==
    LET rest == DropDigits(s)
    IN  IF Len(rest) < Len(s) /\ Len(rest) >= 2 /\ rest[1] = "." /\ rest[2] = " "
        THEN SubSeq(rest, 3, Len(rest))
        ELSE s

\* str.replace(/X+/g, "X") : a run of X becomes one X
RECURSIVE SqueezeRuns(_, _)
SqueezeRuns(s, x) ==
    IF Len(s) = 0 THEN <<>>
    ELSE IF s[1] = x /\ Len(s) > 1 /\ s[2] = x THEN SqueezeRuns(Tail(s), x)
    ELSE <<s[1]>> \o SqueezeRuns(Tail(s), x)

\* util.stripNoise
StripNoise(s) ==
    LET s1 == Normalize(s)
        s2 == CutAfterFirst(s1, "]")
        s3 == CutAfterFirst(s2, ")")
        s4 == StripLineNumber(s3)
        s5 == RemoveGroups(s4, "[", "]")
        s6 == RemoveGroups(s5, "(", ")")
        s7 == SqueezeRuns(s6, "-")
        s8 == SqueezeRuns(s7, ".")
        s9 == StripPunctuation(s8, {"-", "'", "."})
    IN  StripWhitespace(s9)

\* _.deburr, one character
Deburr(c) == IF c = "e_acute" THEN "e" ELSE c

\* util.toAscii
ToAscii(s) ==
    LET s1 == ReplacePunctuation(s)
        s2 == [i \in 1..Len(s1) |-> Deburr(s1[i])]
        s3 == SelectSeq(s2, LAMBDA c : c \in WordChars \cup Whitespace \cup {"-"})
    IN  Trim(s3)

\* query.match(/^[0-9a-z]+$/i)
IsIdentifier(s) ==
    Len(s) > 0 /\ \A i \in 1..Len(s) : s[i] \in LowerLetters \cup UpperLetters \cup Digits

(***************************************************************************)
(* lib/sort.js: comparison functions.                                      *)
(*                                                                         *)
(* A JavaScript value that can be called as a comparison function is a     *)
(* record here:                                                            *)
(*   [op |-> "comparator", dir, score]  built by sort.comparator,          *)
(*   [op |-> "chain", fn1, fn2]         the closure sort.combine builds,   *)
(*   [op |-> "object", name]            a value that is not a function.    *)
(* Calling one gives [threw |-> BOOLEAN, val |-> -1 | 0 | 1].              *)
(***************************************************************************)

\* x.popularity || -1 : null and 0 are both falsy
PopularityScore(x) ==
    IF x.popularity = None \/ x.popularity = Some(0) THEN -1 ELSE x.popularity[1]

\* rankings[album.album_type] || 0
TypeScore(x) ==
    CASE x.album_type = "album" -> 4
      [] x.album_type = "single" -> 3
      [] x.album_type = "appears_on" -> 2
      [] x.album_type = "compilation" -> 1
      [] OTHER -> 0

\* x.explicit ? 1 : 0
CensorshipScore(x) == IF x.explicit THEN 1 ELSE 0

\* x.lastfmPersonal || -1 and x.lastfmGlobal || -1
LastfmPersonalScore(x) ==
    IF x.lastfmPersonal = None \/ x.lastfmPersonal = Some(0) THEN -1 ELSE x.lastfmPersonal[1]

LastfmGlobalScore(x) ==
    IF x.lastfmGlobal = None \/ x.lastfmGlobal = Some(0) THEN -1 ELSE x.lastfmGlobal[1]

\* stringSimilarity.compareTwoStrings(name(x), str): the library's score of the
\* object's name against the query, carried by the catalog object
SimilarityScore(x) == x.sim

\* The scoring function named by a comparator record.
Score(score, x) ==
    CASE score = "popularity" -> PopularityScore(x)
      [] score = "type" -> TypeScore(x)
      [] score = "censorship" -> CensorshipScore(x)
      [] score = "lastfmPersonal" -> LastfmPersonalScore(x)
      [] score = "lastfmGlobal" -> LastfmGlobalScore(x)
      [] score = "similarity" -> SimilarityScore(x)
      [] score = "id" -> x.id

\* sort.comparator(cmp, fn)
Comparator(dir, score) == [op |-> "comparator", dir |-> dir, score |-> score]

\* sort.ascending(fn): (x, y) => x < y ? -1 : x > y ? 1 : 0
Ascending(score) == Comparator("ascending", score)

\* sort.descending(fn): (x, y) => x < y ? 1 : x > y ? -1 : 0
Descending(score) == Comparator("descending", score)

CompareScores(dir, x, y) ==
    IF dir = "ascending"
    THEN (IF x < y THEN -1 ELSE IF x > y THEN 1 ELSE 0)
    ELSE (IF x < y THEN 1 ELSE IF x > y THEN -1 ELSE 0)

\* The characters in the order of their code units.
CharOrder ==
    << "tab", " ", "!", "dquote", "(", ")", ",", "-", ".", "1", ":", "A", "[", "]", "_",
       "a", "b", "c", "e", "e_acute", "emdash" >>

CharCode(c) ==
    IF \E i \in 1..Len(CharOrder) : CharOrder[i] = c
    THEN CHOOSE i \in 1..Len(CharOrder) : CharOrder[i] = c
    ELSE Len(CharOrder) + 1

\* x < y on strings: by the first character that differs, a proper prefix first.
RECURSIVE StrLess(_, _)
StrLess(x, y) ==
    IF Len(y) = 0 THEN FALSE
    ELSE IF Len(x) = 0 THEN TRUE
    ELSE IF x[1] = y[1] THEN StrLess(Tail(x), Tail(y))
    ELSE CharCode(x[1]) < CharCode(y[1])

\* track[prop]
Prop(t, prop) ==
    CASE prop = "popularity" -> t.popularity
      [] prop = "name" -> t.name
      [] prop = "artist" -> t.artist
      [] prop = "album" -> t.album
      [] prop = "title" -> t.title
      [] prop = "uri" -> t.uri
      [] prop = "id" -> t.id
      [] prop = "tempo" -> t.tempo
      [] prop = "lastfm" -> t.lastfm

\* typeof track[prop] === "string"; popularity is null or a number.
IsStringProp(prop) == prop \notin {"popularity", "tempo", "lastfm"}

\* A number or null in a comparison with <: null counts as 0.
ToNumber(x) == IF x = None THEN 0 ELSE x[1]

\* The comparison function of Collection.prototype.order made ascending on
\* numbers as on strings.
OrderingCompareAscending(prop, a, b) ==
    LET x == Prop(a, prop)
        y == Prop(b, prop)
    IN  IF IsStringProp(prop)
        THEN (IF StrLess(x, y) THEN -1 ELSE IF StrLess(y, x) THEN 1 ELSE 0)
        ELSE (IF ToNumber(x) < ToNumber(y) THEN -1 ELSE IF ToNumber(x) > ToNumber(y) THEN 1 ELSE 0)

\* The comparison function of Collection.prototype.order: ascending on
\* strings, descending otherwise.
OrderingCompare(prop, a, b) ==
    LET x == Prop(a, prop)
        y == Prop(b, prop)
    IN  IF IsStringProp(prop)
        THEN (IF StrLess(x, y) THEN -1 ELSE IF StrLess(y, x) THEN 1 ELSE 0)
        ELSE (IF ToNumber(x) < ToNumber(y) THEN 1 ELSE IF ToNumber(x) > ToNumber(y) THEN -1 ELSE 0)

OrderingComparator(prop) == [op |-> "ordering", prop |-> prop]

\* Calling a value as a comparison function on (a, b).
RECURSIVE Call(_, _, _)
Call(f, a, b) ==
    CASE f.op = "comparator" ->
            [threw |-> FALSE, val |-> CompareScores(f.dir, Score(f.score, a), Score(f.score, b))]
      [] f.op = "chain" ->
            LET val == Call(f.fn1, a, b)
            IN  IF val.threw THEN val
                ELSE IF val.val = 0 THEN Call(f.fn2, a, b) ELSE val
      [] f.op = "ordering" ->
            [threw |-> FALSE, val |-> OrderingCompare(f.prop, a, b)]
      [] OTHER -> [threw |-> TRUE, val |-> 0]   \* TypeError: not a function

\* The arguments object an arrow function at module level sees: the
\* arguments of the CommonJS module wrapper, not those of the arrow function.
ModuleArguments ==
    << [op |-> "object", name |-> "exports"],
       [op |-> "object", name |-> "require"],
       [op |-> "object", name |-> "module"],
       [op |-> "object", name |-> "__filename"],
       [op |-> "object", name |-> "__dirname"] >>

\* args.reduce((fn1, fn2) => (a, b) => { val = fn1(a, b); return val === 0 ? fn2(a, b) : val })
RECURSIVE Reduce(_)
Reduce(args) ==
    IF Len(args) = 1 THEN args[1]
    ELSE [op |-> "chain", fn1 |-> Reduce(SubSeq(args, 1, Len(args) - 1)), fn2 |-> args[Len(args)]]

\* sort.combine = () => { const args = slice.call(arguments); return args.reduce(...) }
\* The function is an arrow function, so `arguments` is not its own argument list.
Combine(fns) == Reduce(ModuleArguments)

SortPopularity == Descending("popularity")
SortType == Descending("type")
SortCensorship == Descending("censorship")
SortSimilarTrack == Descending("similarity")
SortLastfmParts == <<Descending("lastfmPersonal"), Descending("lastfmGlobal"), SortPopularity>>
SortLastfm == Combine(SortLastfmParts)
SortAlbumParts == <<SortType, SortPopularity>>
SortAlbum == Combine(SortAlbumParts)
SortTrackParts == <<SortSimilarTrack, SortPopularity, SortCensorship>>
SortTrack == Combine(SortTrackParts)

(***************************************************************************)
(* lib/sort.js: sort(arr, fn).                                             *)
(***************************************************************************)

\* pairs = arr.map(x => ({idx: i++, val: x}))
Pairs(a) == [i \in 1..Len(a) |-> [idx |-> i, val |-> a[i]]]

\* The function handed to Array.prototype.sort: fn on the values, then the
\* original index.
PairCompareReversedIndex(f, p, q) ==
    LET x == Call(f, p.val, q.val)
    IN  IF x.threw THEN x
        ELSE IF x.val # 0 THEN x
        ELSE [threw |-> FALSE, val |-> IF p.idx < q.idx THEN 1 ELSE IF p.idx > q.idx THEN -1 ELSE 0]

PairCompare(f, p, q) ==
    LET x == Call(f, p.val, q.val)
    IN  IF x.threw THEN x
        ELSE IF x.val # 0 THEN x
        ELSE [threw |-> FALSE, val |-> IF p.idx < q.idx THEN -1 ELSE IF p.idx > q.idx THEN 1 ELSE 0]

\* Array.prototype.sort on the pairs, as an insertion sort (what the engine
\* does for short arrays): each element is moved left past the elements that
\* compare greater.  An exception thrown by the comparison ends the sort.
RECURSIVE InsertPair(_, _, _)
InsertPair(f, s, p) ==
    IF Len(s) = 0 THEN [threw |-> FALSE, val |-> <<p>>]
    ELSE LET c == PairCompare(f, s[Len(s)], p)
         IN  IF c.threw THEN [threw |-> TRUE, val |-> <<>>]
             ELSE IF c.val > 0
             THEN LET r == InsertPair(f, SubSeq(s, 1, Len(s) - 1), p)
                  IN  IF r.threw THEN r
                      ELSE [threw |-> FALSE, val |-> Append(r.val, s[Len(s)])]
             ELSE [threw |-> FALSE, val |-> Append(s, p)]

RECURSIVE NativeSort(_, _, _)
NativeSort(f, ps, n) ==
    IF n = 0 THEN [threw |-> FALSE, val |-> <<>>]
    ELSE LET r == NativeSort(f, ps, n - 1)
         IN  IF r.threw THEN r ELSE InsertPair(f, r.val, ps[n])

\* sort(arr, fn): the array sorted in place and returned, or the exception
\* of the comparison function (the array is then left as it was).
Sort(a, f) ==
    LET r == NativeSort(f, Pairs(a), Len(a))
    IN  IF r.threw THEN [threw |-> TRUE, val |-> a]
        ELSE [threw |-> FALSE, val |-> [i \in 1..Len(a) |-> r.val[i].val]]

(***************************************************************************)
(* The sort specification: sort() applied to every array of catalog        *)
(* objects up to MaxArr elements, under every comparison function the      *)
(* library builds.                                                         *)
(***************************************************************************)
Obj(id, pop, explicit, type, sim, personal, global) ==
    [id |-> id, popularity |-> pop, explicit |-> explicit, album_type |-> type,
     sim |-> sim, lastfmPersonal |-> personal, lastfmGlobal |-> global]

SortObjects ==
    { Obj(1, None, FALSE, "album", 1, None, None),
      Obj(2, Some(1), TRUE, "album", 1, None, Some(2)),
      Obj(3, Some(1), FALSE, "single", 0, Some(1), Some(2)),
      Obj(4, Some(2), FALSE, "single", 0, Some(1), Some(0)),
      Obj(5, Some(0), TRUE, "other", 1, Some(0), None) }

ScoreNames == {"popularity", "type", "censorship", "lastfmPersonal", "lastfmGlobal", "similarity", "id"}

SimpleComparators == {Comparator(d, s) : d \in {"ascending", "descending"}, s \in ScoreNames}

CombinedParts == {SortLastfmParts, SortAlbumParts, SortTrackParts}

NoTrack == [stage |-> "none"]
NoResponse == [stage |-> "none"]
NoCatalog == [ids |-> {}, tracks |-> {}]
NoOptions == [unique |-> TRUE]
NoStage == [next |-> "none"]

SortInit ==
    /\ arr \in SeqsUpTo(SortObjects, MaxArr)
    /\ fn \in [kind : {"simple"}, f : SimpleComparators, parts : {<<>>}]
              \cup {[kind |-> "combined", f |-> Combine(ps), parts |-> ps] : ps \in CombinedParts}
    /\ sorted = [threw |-> FALSE, val |-> <<>>]
    /\ spc = "input"
    /\ trk = NoTrack
    /\ reqs = <<>>
    /\ last = NoResponse
    /\ catalog = NoCatalog
    /\ entries = <<>>
    /\ sources = <<>>
    /\ settled = <<>>
    /\ cpc = "none"
    /\ opts = NoOptions
    /\ hist = <<>>
    /\ ppc = NoStage
    /\ output = <<>>

\* sort(arr, fn)
SortCall ==
    /\ spc = "input"
    /\ sorted' = Sort(arr, fn.f)
    /\ spc' = "done"
    /\ UNCHANGED <<arr, fn, trackVars, catalog, collVars, pipeVars>>

SortNext == SortCall

SpecSort == SortInit /\ [][SortNext]_vars

(***************************************************************************)
(* lib/track.js: the Track entry.                                          *)
(*                                                                         *)
(* A Track is a record of the object's fields.  "stage" is the position of *)
(* its dispatch in the promise chain of searchTracks: "new" before the     *)
(* dispatch, the name of the attempt in flight, then "resolved" or         *)
(* "rejected".  "given" keeps the constructor's arguments.                 *)
(***************************************************************************)
Dash == <<" ", "-", " ">>

\* `spotify:track:${id}`
TrackURI(id) == <<"spotify:track:">> \o id

\* new Track(spotify, entry, artist, name, album, id)
NewTrack(entry, artist, name, album, id) ==
    [kind |-> "track", origin |-> 0,
     entry |-> Trim(entry), name |-> name, artist |-> artist, album |-> album, id |-> id,
     uri |-> <<>>, title |-> <<>>, popularity |-> None, explicit |-> FALSE,
     artists |-> <<>>, mainArtist |-> <<>>, tempo |-> None, lastfm |-> None, stage |-> "new",
     given |-> [artist |-> artist, name |-> name, album |-> album, id |-> id]]

\* artists.join(", ")
RECURSIVE Join(_)
Join(names) ==
    IF Len(names) = 0 THEN <<>>
    ELSE IF Len(names) = 1 THEN names[1]
    ELSE names[1] \o <<",", " ">> \o Join(Tail(names))

\* Track.prototype.clone: the response's own properties are copied onto the
\* track, then album, artists, artist, mainArtist and title are derived.
\* A catalog track object is [id, uri, name, album, artists, popularity,
\* explicit]: album is response.album.name (empty when the object has no
\* album), artists the names of response.artists.
Clone(t, response) ==
    LET names == [i \in 1..Len(response.artists) |-> Trim(response.artists[i])]
        main == IF Len(names) > 0 THEN names[1] ELSE t.mainArtist
    IN  [t EXCEPT !.id = response.id,
                  !.uri = response.uri,
                  !.name = response.name,
                  !.popularity = response.popularity,
                  !.explicit = response.explicit,
                  !.album = IF response.album # <<>> THEN response.album ELSE t.album,
                  !.artists = IF Len(names) > 0 THEN names ELSE t.artists,
                  !.artist = IF Len(names) > 0 THEN Join(names) ELSE t.artist,
                  !.mainArtist = main,
                  !.title = IF main # <<>> /\ response.name # <<>>
                            THEN main \o Dash \o response.name
                            ELSE response.name]

\* The query string search(track, artist, album) sends.
SearchQueryText(track, artist, album) ==
    IF artist # <<>> \/ album # <<>>
    THEN <<"track:", "dquote">> \o Trim(track) \o <<"dquote">>
         \o (IF artist # <<>> THEN <<" ", "artist:", "dquote">> \o Trim(artist) \o <<"dquote">> ELSE <<>>)
         \o (IF album # <<>> THEN <<" ", "album:", "dquote">> \o Trim(album) \o <<"dquote">> ELSE <<>>)
    ELSE Trim(track)

\* The string handed to searchQuery: artist, title and album joined when the
\* track has an artist, the entry string otherwise.
PlainQuery(t) ==
    IF t.artist # <<>>
    THEN t.artist \o Dash \o t.name \o (IF t.album # <<>> THEN Dash \o t.album ELSE <<>>)
    ELSE t.entry

\* util.toAscii(util.stripNoise(query))
SimplifiedQuery(t) == ToAscii(StripNoise(PlainQuery(t)))

SearchStages == {"search", "swap", "noalbum", "noalbumswap", "plain", "simple"}
InFlight == SearchStages \cup {"ident"}

\* The arguments of the call of search() that each attempt makes.
StageArgs(t, stage) ==
    CASE stage = "search" -> [track |-> t.name, artist |-> t.artist, album |-> t.album]
      [] stage = "swap" -> [track |-> t.artist, artist |-> t.name, album |-> t.album]
      [] stage = "noalbum" -> [track |-> t.name, artist |-> t.artist, album |-> <<>>]
      [] stage = "noalbumswap" -> [track |-> t.artist, artist |-> t.name, album |-> <<>>]
      [] stage = "plain" -> [track |-> PlainQuery(t), artist |-> <<>>, album |-> <<>>]
      [] stage = "simple" -> [track |-> SimplifiedQuery(t), artist |-> <<>>, album |-> <<>>]

\* The catalog request of the attempt in flight.
StageRequest(t) ==
    IF t.stage = "ident"
    THEN [op |-> "getTrack", q |-> PlainQuery(t)]
    ELSE LET a == StageArgs(t, t.stage)
         IN  [op |-> "searchTracks", q |-> SearchQueryText(a.track, a.artist, a.album)]

\* The last catch of searchQuery trying every query as an identifier.
IdentOrRejectAnyQuery(t) == "ident"

\* The last catch of searchQuery: the query as an identifier, or not found.
IdentOrReject(t) == IF IsIdentifier(PlainQuery(t)) THEN "ident" ELSE "rejected"

\* The attempt the catch handlers of searchTracks make after `stage` failed.
NextStageNoSwap(t, stage) ==
    CASE stage = "search" -> IF t.album # <<>> THEN "noalbum" ELSE "plain"
      [] stage = "swap" -> IF t.album # <<>> THEN "noalbum" ELSE "plain"
      [] stage = "noalbum" -> "plain"
      [] stage = "noalbumswap" -> "plain"
      [] stage = "plain" ->
            IF SimplifiedQuery(t) # <<>> /\ SimplifiedQuery(t) # PlainQuery(t)
            THEN "simple" ELSE IdentOrReject(t)
      [] stage = "simple" -> IdentOrReject(t)
      [] stage = "ident" -> "rejected"

NextStageGiveUpEarly(t, stage) ==
    CASE stage = "search" -> "swap"
      [] stage = "swap" -> IF t.album # <<>> THEN "noalbum" ELSE "plain"
      [] stage = "noalbum" -> "noalbumswap"
      [] stage = "noalbumswap" -> "plain"
      [] stage = "plain" -> "rejected"
      [] stage = "simple" -> "rejected"
      [] stage = "ident" -> "rejected"

NextStage(t, stage) ==
    CASE stage = "search" -> "swap"
      [] stage = "swap" -> IF t.album # <<>> THEN "noalbum" ELSE "plain"
      [] stage = "noalbum" -> "noalbumswap"
      [] stage = "noalbumswap" -> "plain"
      [] stage = "plain" ->
            IF SimplifiedQuery(t) # <<>> /\ SimplifiedQuery(t) # PlainQuery(t)
            THEN "simple" ELSE IdentOrReject(t)
      [] stage = "simple" -> IdentOrReject(t)
      [] stage = "ident" -> "rejected"

\* Track.prototype.getTrack before its request: a track whose popularity is
\* an integer is returned as it is.  Entering any other attempt sends its
\* request.
EnterStage(t, stage) ==
    IF stage = "ident" /\ t.popularity # None
    THEN [t EXCEPT !.stage = "resolved"]
    ELSE [t EXCEPT !.stage = stage]

\* The then-callback of search(): no first item is a miss; results of a
\* search without an artist are sorted with sort.track(query) first; the
\* first item is cloned onto the track.  An exception of sort() rejects.
SearchThenAlwaysSort(t, artist, response) ==
    IF ~response.ok \/ Len(response.items) = 0
    THEN [ok |-> FALSE, track |-> t]
    ELSE LET ranked == Sort(response.items, SortTrack)
         IN  IF ranked.threw
             THEN [ok |-> FALSE, track |-> t]
             ELSE [ok |-> TRUE, track |-> Clone(t, ranked.val[1])]

SearchThen(t, artist, response) ==
    IF ~response.ok \/ Len(response.items) = 0
    THEN [ok |-> FALSE, track |-> t]
    ELSE LET ranked == IF artist = <<>>
                       THEN Sort(response.items, SortTrack)
                       ELSE [threw |-> FALSE, val |-> response.items]
         IN  IF ranked.threw
             THEN [ok |-> FALSE, track |-> t]
             ELSE [ok |-> TRUE, track |-> Clone(t, ranked.val[1])]

\* The then and catch of Track.prototype.getTrack: the body is cloned onto
\* the track, a failed request rejects.
GetTrackThenSwallow(t, response) ==
    IF response.ok
    THEN [ok |-> TRUE, track |-> Clone(t, response.items[1])]
    ELSE [ok |-> TRUE, track |-> t]

GetTrackThen(t, response) ==
    IF response.ok
    THEN [ok |-> TRUE, track |-> Clone(t, response.items[1])]
    ELSE [ok |-> FALSE, track |-> t]

\* Track.prototype.dispatch without the test of this.id.
DispatchTrackIgnoringId(t) ==
    IF t.uri # <<>> THEN [t EXCEPT !.stage = "resolved"]
    ELSE IF t.artist # <<>> THEN EnterStage(t, "search")
    ELSE EnterStage(t, "plain")

\* Track.prototype.dispatch -> getURI -> getProperty("uri"): a URI that is set
\* is returned, a known id gives the URI without a request, and otherwise
\* searchTracks starts: the structured search when the track has an artist,
\* the plain query otherwise.
DispatchTrack(t) ==
    IF t.uri # <<>> THEN [t EXCEPT !.stage = "resolved"]
    ELSE IF t.id # <<>> THEN [t EXCEPT !.uri = TrackURI(t.id), !.stage = "resolved"]
    ELSE IF t.artist # <<>> THEN EnterStage(t, "search")
    ELSE EnterStage(t, "plain")

\* What the handlers of the attempt in flight make of the catalog's answer.
ReplyResult(t, response) ==
    IF t.stage = "ident"
    THEN GetTrackThen(t, response)
    ELSE SearchThen(t, StageArgs(t, t.stage).artist, response)

\* The reply handlers with an exhausted chain resolving instead of rejecting.
TrackReplyResolvingMiss(t, response) ==
    LET r == ReplyResult(t, response)
        next == EnterStage(t, NextStage(t, t.stage))
    IN  IF r.ok THEN [r.track EXCEPT !.stage = "resolved"]
        ELSE IF next.stage = "rejected" THEN [next EXCEPT !.stage = "resolved"]
        ELSE next

\* The catalog answers the request in flight: the track is resolved, or the
\* next attempt of the chain starts, or the chain is exhausted.
TrackReply(t, response) ==
    LET r == ReplyResult(t, response)
    IN  IF r.ok THEN [r.track EXCEPT !.stage = "resolved"]
        ELSE EnterStage(t, NextStage(t, t.stage))

\* str.toLowerCase()
ToLower(s) == [i \in 1..Len(s) |-> IF s[i] = "A" THEN "a" ELSE s[i]]

\* Track.prototype.equals: both URIs are set and they are the same.
Equals(t, track) == t.uri # <<>> /\ track.uri # <<>> /\ t.uri = track.uri

\* The inner function trim of Track.prototype.similarTo.
TrimTitle(str) == ToLower(StripWhitespace(StripPunctuation(ToAscii(str), {})))

\* Track.prototype.similarTo with the titles compared only when neither track
\* has a URI.
SimilarToTitlesOnlyWithoutURIs(t, track) ==
    \/ Equals(t, track)
    \/ /\ t.uri = <<>> /\ track.uri = <<>>
       /\ t.title # <<>>
       /\ track.title # <<>>
       /\ \/ t.title = track.title
          \/ TrimTitle(t.title) # <<>> /\ TrimTitle(t.title) = TrimTitle(track.title)

\* Track.prototype.similarTo: the tracks are equal, or both have a title and
\* the titles are the same, as written or once trimmed to a non-empty string.
SimilarTo(t, track) ==
    \/ Equals(t, track)
    \/ /\ t.title # <<>>
       /\ track.title # <<>>
       /\ \/ t.title = track.title
          \/ TrimTitle(t.title) # <<>> /\ TrimTitle(t.title) = TrimTitle(track.title)

(***************************************************************************)
(* The catalog: what it may answer.                                        *)
(***************************************************************************)
CatalogTrack(id, name, artist, album, popularity, explicit, sim) ==
    [id |-> id, uri |-> TrackURI(id), name |-> name, artists |-> <<artist>>, album |-> album,
     popularity |-> popularity, explicit |-> explicit, sim |-> sim,
     album_type |-> "", lastfmPersonal |-> None, lastfmGlobal |-> None]

CatalogTracks ==
    { CatalogTrack(<<"1">>, <<"a">>, <<"b">>, <<"c">>, Some(1), FALSE, 0),
      CatalogTrack(<<"a", "1">>, <<"a">>, <<"b">>, <<"c">>, Some(2), FALSE, 1),
      CatalogTrack(<<"b", "1">>, <<"a">>, <<"b">>, <<"c">>, Some(2), TRUE, 1) }

\* Sequences of distinct catalog tracks, up to MaxItems of them.
ItemLists(tracks) ==
    {s \in SeqsUpTo(tracks, MaxItems) : \A i, j \in 1..Len(s) : i # j => s[i] # s[j]}

Rejected == [ok |-> FALSE, items |-> <<>>]

\* A search request fails, or returns a list of items (which may be empty).
SearchResponses(cat) == {Rejected} \cup {[ok |-> TRUE, items |-> s] : s \in ItemLists(cat.tracks)}

\* A fetch by identifier fails (always, when the catalog does not know the
\* identifier), or returns the track of that identifier.
GetTrackResponses(id, cat) ==
    {Rejected} \cup
    (IF id \in cat.ids
     THEN {[ok |-> TRUE, items |-> <<[c EXCEPT !.id = id, !.uri = TrackURI(id)]>>] : c \in cat.tracks}
     ELSE {})

Responses(request, cat) ==
    IF request.op = "getTrack" THEN GetTrackResponses(request.q, cat) ELSE SearchResponses(cat)

(***************************************************************************)
(* The track specification: one Track is dispatched and the catalog        *)
(* answers each of its requests in every possible way.                     *)
(***************************************************************************)
EntryStrings ==
    { <<"a", "b">>,                           \* an identifier-like word
      <<"a", " ", "b">>,                      \* two words
      <<"a", " ", "(", "b", ")">>,            \* an annotation to strip
      <<"e_acute">>,                          \* a letter to fold to ASCII
      <<"1", ".", " ", "a">>,                 \* a line number to strip
      <<"!">> }                               \* nothing left when simplified

TrackIds == {<<"a", "b">>, <<"a">>, <<"b", "1">>}

TrackInputs ==
    {NewTrack(e, <<>>, <<>>, <<>>, <<>>) : e \in EntryStrings}
    \cup {NewTrack(ar \o Dash \o <<"a">>, ar, <<"a">>, al, <<>>) :
            ar \in {<<"b">>, <<"e_acute">>}, al \in {<<>>, <<"c">>}}
    \cup {NewTrack(TrackURI(id), <<>>, <<>>, <<>>, id) : id \in TrackIds}

\* One line of the request log.
Logged(t) == [req |-> StageRequest(t), stage |-> t.stage, phase |-> "dispatch", result |-> "pending"]

SetLastResult(log, result) == [log EXCEPT ![Len(log)].result = result]

TrackInit ==
    /\ trk \in TrackInputs
    /\ catalog \in [ids : SUBSET TrackIds, tracks : {CatalogTracks}]
    /\ reqs = <<>>
    /\ last = NoResponse
    /\ arr = <<>>
    /\ fn = [kind |-> "none"]
    /\ sorted = [threw |-> FALSE, val |-> <<>>]
    /\ spc = "none"
    /\ entries = <<>>
    /\ sources = <<>>
    /\ settled = <<>>
    /\ cpc = "none"
    /\ opts = NoOptions
    /\ hist = <<>>
    /\ ppc = NoStage
    /\ output = <<>>

\* track.dispatch()
TrackDispatch ==
    /\ trk.stage = "new"
    /\ trk' = DispatchTrack(trk)
    /\ reqs' = IF trk'.stage \in InFlight THEN Append(reqs, Logged(trk')) ELSE reqs
    /\ UNCHANGED <<last, catalog, sortVars, collVars, pipeVars>>

\* The catalog answers the request in flight.
TrackCatalogReply ==
    /\ trk.stage \in InFlight
    /\ \E response \in Responses(StageRequest(trk), catalog) :
          /\ trk' = TrackReply(trk, response)
          /\ last' = [stage |-> trk.stage, resp |-> response]
          /\ reqs' = LET done == SetLastResult(reqs, IF ReplyResult(trk, response).ok
                                                      THEN "succeeded" ELSE "failed")
                     IN  IF trk'.stage \in InFlight THEN Append(done, Logged(trk')) ELSE done
    /\ UNCHANGED <<catalog, sortVars, collVars, pipeVars>>

TrackNext == TrackDispatch \/ TrackCatalogReply

SpecTrack == TrackInit /\ [][TrackNext]_vars

(***************************************************************************)
(* One call of track.searchTracks() on a new Track, and the catalog's      *)
(* answers to the requests of its chain.                                   *)
(***************************************************************************)
\* Track.prototype.searchTracks up to its first request: a track with an id
\* resolves at once; one with an artist starts with the structured search,
\* any other with the plain query.
SearchTracks(t) ==
    IF t.id # <<>> THEN [t EXCEPT !.stage = "resolved"]
    ELSE IF t.artist # <<>> THEN EnterStage(t, "search")
    ELSE EnterStage(t, "plain")

\* track.searchTracks()
TrackSearchTracks ==
    /\ trk.stage = "new"
    /\ trk' = SearchTracks(trk)
    /\ reqs' = IF trk'.stage \in InFlight THEN Append(reqs, Logged(trk')) ELSE reqs
    /\ UNCHANGED <<last, catalog, sortVars, collVars, pipeVars>>

SearchNext == TrackSearchTracks \/ TrackCatalogReply

SpecSearch == TrackInit /\ [][SearchNext]_vars

\* The call is made, and every catalog request settles: weak fairness of
\* TrackSearchTracks and of TrackCatalogReply.  TrackCatalogReply is enabled
\* exactly while a request is in flight (the catalog may always answer with
\* a rejection), so its weak fairness is written out with that condition.
SpecSearchFair ==
    /\ SpecSearch
    /\ WF_vars(TrackSearchTracks)
    /\ ([]<>(trk.stage \notin InFlight) \/ []<><<TrackCatalogReply>>_vars)

(***************************************************************************)
(* Queue (lib/queue.js): the operations of the queue the collection holds. *)
(* A queue is the sequence of its elements; a queue that is an element of  *)
(* another queue is the record [kind |-> "queue", queue |-> elements].     *)
(***************************************************************************)
\* queue.slice(start, end)
Slice(q, start, end) ==
    LET stop == IF end < Len(q) THEN end ELSE Len(q)
    IN  IF start + 1 > stop THEN <<>> ELSE SubSeq(q, start + 1, stop)

\* queue.flatten(): the elements of nested queues take the place of the
\* queue they are in, recursively.
RECURSIVE Flatten(_)
Flatten(q) ==
    IF Len(q) = 0 THEN <<>>
    ELSE (IF q[1].kind = "queue" THEN Flatten(q[1].queue) ELSE <<q[1]>>) \o Flatten(Tail(q))

\* queue.dedup() dropping one duplicate only: the first entry that is
\* similar to an entry before it.
DedupDroppingOne(q) ==
    LET dups == {i \in 1..Len(q) : \E j \in 1..(i - 1) : SimilarTo(q[j], q[i])}
        first == CHOOSE i \in dups : \A j \in dups : i <= j
    IN  IF dups = {} THEN q
        ELSE SubSeq(q, 1, first - 1) \o SubSeq(q, first + 1, Len(q))

\* The entries kept so far, then entry q[i] and those after it: an entry is
\* kept unless an entry kept before it is similar to it.
RECURSIVE DedupFrom(_, _, _)
DedupFrom(kept, q, i) ==
    IF i > Len(q) THEN kept
    ELSE IF \E j \in 1..Len(kept) : SimilarTo(kept[j], q[i])
         THEN DedupFrom(kept, q, i + 1)
         ELSE DedupFrom(Append(kept, q[i]), q, i + 1)

\* queue.dedup(): the first entry of every class of duplicates is kept, in
\* the order of the queue.
Dedup(q) == DedupFrom(<<>>, q, 1)

\* The keys of the entries in the order of their first appearance.
RECURSIVE KeysFrom(_, _)
KeysFrom(ks, seen) ==
    IF Len(ks) = 0 THEN seen
    ELSE IF \E j \in 1..Len(seen) : seen[j] = ks[1]
         THEN KeysFrom(Tail(ks), seen)
         ELSE KeysFrom(Tail(ks), Append(seen, ks[1]))

\* The entries of the queue that have the key, in the order of the queue;
\* ks[i] is the key of q[i].
WithKey(ks, q, k) ==
    LET at == SelectSeq([i \in 1..Len(q) |-> i], LAMBDA i : ks[i] = k)
    IN  [j \in 1..Len(at) |-> q[at[j]]]

\* The concatenation of a sequence of sequences.
RECURSIVE Concat(_)
Concat(qs) == IF Len(qs) = 0 THEN <<>> ELSE qs[1] \o Concat(Tail(qs))

\* The groups of the queue: one sub-queue per key, keys in the order of
\* their first appearance.
Groups(ks, q) ==
    LET keys == KeysFrom(ks, <<>>)
    IN  [g \in 1..Len(keys) |-> WithKey(ks, q, keys[g])]

\* queue.group(fn): the groups one after the other.
Group(ks, q) == Concat(Groups(ks, q))

\* Round r and those after it of the round-robin over the sub-queues: the
\* r-th entry of every sub-queue that has one.
RECURSIVE RoundsFrom(_, _)
RoundsFrom(qs, r) ==
    IF \A g \in 1..Len(qs) : Len(qs[g]) < r THEN <<>>
    ELSE LET has == SelectSeq([g \in 1..Len(qs) |-> g], LAMBDA g : Len(qs[g]) >= r)
         IN  [k \in 1..Len(has) |-> qs[has[k]][r]] \o RoundsFrom(qs, r + 1)

\* queue.interleave() stopping at the end of the shortest sub-queue.
InterleaveToShortest(qs) ==
    IF Len(qs) = 0 THEN <<>>
    ELSE LET n == CHOOSE m \in 0..MaxQueue :
                     /\ \A g \in 1..Len(qs) : Len(qs[g]) >= m
                     /\ \E g \in 1..Len(qs) : Len(qs[g]) = m
         IN  Concat([r \in 1..n |-> [g \in 1..Len(qs) |-> qs[g][r]]])

\* queue.interleave() of a queue of queues: round-robin over the sub-queues.
Interleave(qs) == RoundsFrom(qs, 1)

\* queue.alternate(fn): the groups interleaved.
Alternate(ks, q) == Interleave(Groups(ks, q))

\* queue.reverse()
Reverse(q) == [i \in 1..Len(q) |-> q[Len(q) + 1 - i]]

(***************************************************************************)
(* Album (the part a collection entry with a known album id exercises).    *)
(*                                                                         *)
(* "tracks" is None for null and Some(items) for a list; "queue" is the    *)
(* queue of tracks dispatch() resolves with.                               *)
(***************************************************************************)
\* `spotify:album:${id}`
AlbumURI(id) == <<"spotify:album:">> \o id

\* new Album(spotify, entry, artist, name, id, limit)
NewAlbum(entry, artist, name, id, limit) ==
    [kind |-> "album", origin |-> 0,
     entry |-> Trim(entry), name |-> name, artist |-> artist, id |-> id, limit |-> limit,
     popularity |-> None, tracks |-> None, fetchTracks |-> TRUE, album_type |-> "",
     uri |-> IF id # <<>> THEN AlbumURI(id) ELSE <<>>,
     stage |-> "new", queue |-> <<>>]

\* Album.prototype.clone: the body's own properties are copied onto the album
\* and tracks becomes body.tracks.items.
AlbumClone(a, body) ==
    [a EXCEPT !.id = body.id, !.name = body.name, !.uri = body.uri,
              !.popularity = body.popularity, !.tracks = Some(body.items)]

\* Album.prototype.createQueue without the assignment of track.album.
AlbumCreateQueueAsCloned(a) ==
    LET items == a.tracks[1]
        tracks == [i \in 1..Len(items) |->
                     [Clone(NewTrack(a.entry, <<>>, <<>>, <<>>, <<>>), items[i])
                        EXCEPT !.origin = a.origin]]
    IN  IF a.limit # None /\ a.limit[1] # 0 THEN Slice(tracks, 0, a.limit[1]) ELSE tracks

\* Album.prototype.createQueue: one Track per item, made from the album's
\* entry string, with the item cloned onto it and the album's name as its
\* album; the queue is cut to the limit when there is one.
AlbumCreateQueue(a) ==
    LET items == a.tracks[1]
        tracks == [i \in 1..Len(items) |->
                     [Clone(NewTrack(a.entry, <<>>, <<>>, <<>>, <<>>), items[i])
                        EXCEPT !.album = a.name, !.origin = a.origin]]
    IN  IF a.limit # None /\ a.limit[1] # 0 THEN Slice(tracks, 0, a.limit[1]) ELSE tracks

\* The then of Album.prototype.dispatch: createQueue() throws when the album
\* has no track list, which rejects the dispatch.
AlbumThenCreateQueue(a) ==
    IF a.tracks = None THEN [a EXCEPT !.stage = "rejected"]
    ELSE [a EXCEPT !.stage = "resolved", !.queue = AlbumCreateQueue(a)]

\* Album.prototype.dispatch -> getTracks -> getAlbum: a track list that is set
\* is used, an album whose popularity is set is not fetched again, an album
\* with an id is fetched, and otherwise the album is searched for first.
DispatchAlbum(a) ==
    IF a.tracks # None THEN AlbumThenCreateQueue(a)
    ELSE IF a.id = <<>> THEN [a EXCEPT !.stage = "searchAlbums"]
    ELSE IF a.popularity # None THEN AlbumThenCreateQueue(a)
    ELSE [a EXCEPT !.stage = "getAlbum"]

\* The then and catch of Album.prototype.getAlbum, followed by createQueue.
AlbumReply(a, response) ==
    IF response.ok THEN AlbumThenCreateQueue(AlbumClone(a, response.items[1]))
    ELSE [a EXCEPT !.stage = "rejected"]

\* An item of an album's track list: a track object without album and
\* popularity.
AlbumItem(c) == [c EXCEPT !.album = <<>>, !.popularity = None]

\* A fetch of an album fails or returns the album with its track list.
GetAlbumResponses(id, cat) ==
    {Rejected} \cup
    {[ok |-> TRUE,
      items |-> <<[id |-> id, name |-> <<"c">>, uri |-> AlbumURI(id), popularity |-> Some(1),
                   items |-> [i \in 1..Len(s) |-> AlbumItem(s[i])]]>>] : s \in ItemLists(cat.tracks)}

(***************************************************************************)
(* Collection.getTracks: the entries of the collection's queue are         *)
(* dispatched, the catalog answers their requests in any interleaving, and *)
(* the queue of results is flattened into the collection's new queue.      *)
(*                                                                         *)
(* "origin" is history: the position in the collection's queue of the      *)
(* entry a track comes from.                                               *)
(***************************************************************************)
Settled == {"resolved", "rejected"}

\* entry.dispatch(), as Queue.prototype.dispatch calls it on each entry.
DispatchEntry(e) == IF e.kind = "album" THEN DispatchAlbum(e) ELSE DispatchTrack(e)

\* The entry's handlers take the catalog's answer to its request in flight.
EntryReply(e, response) ==
    IF e.kind = "album" THEN AlbumReply(e, response) ELSE TrackReply(e, response)

\* What the catalog may answer to the entry's request in flight.
EntryResponses(e, cat) ==
    IF e.kind = "album" THEN GetAlbumResponses(e.id, cat) ELSE Responses(StageRequest(e), cat)

\* What a resolved entry's dispatch() resolved with: a Track resolves with
\* itself, an Album or a Top with its queue of tracks.
EntryValue(e) == IF e.kind \in {"album", "top"} THEN [kind |-> "queue", queue |-> e.queue] ELSE e

\* Queue.prototype.dispatch collecting in the order the entries settled.
QueueDispatchResultInCompletionOrder(q) ==
    LET Collect(order) ==
            [k \in 1..Len(order) |-> EntryValue(q[order[k]])]
        resolvedOrder == SelectSeq(settled, LAMBDA i : i \in 1..Len(q) /\ q[i].stage = "resolved")
    IN  Collect(resolvedOrder)

\* Queue.prototype.dispatch, once every entry has settled: the results of the
\* entries that resolved, in the order of the entries; an entry that was
\* rejected leaves nothing.
RECURSIVE QueueDispatchResult(_)
QueueDispatchResult(q) ==
    IF Len(q) = 0 THEN <<>>
    ELSE (IF q[1].stage = "resolved" THEN <<EntryValue(q[1])>> ELSE <<>>)
         \o QueueDispatchResult(Tail(q))

\* The then of Collection.prototype.getTracks without the call of flatten().
GetTracksThenKeepingQueues(queue) == queue

\* The then of Collection.prototype.getTracks: this.entries = queue.flatten()
GetTracksThen(queue) == Flatten(queue)

\* The catalog of this specification: it knows one track identifier and
\* returns two tracks.
CollectionCatalog ==
    [ids |-> {<<"a", "b">>},
     tracks |-> {c \in CatalogTracks : c.id \in {<<"a", "1">>, <<"b", "1">>}}]

\* The entries a collection is made of: a track to search for, and a track
\* and an album given by identifier.
CollectionEntries ==
    { NewTrack(<<"a", "b">>, <<>>, <<>>, <<>>, <<>>),
      NewTrack(TrackURI(<<"a">>), <<>>, <<>>, <<>>, <<"a">>),
      NewAlbum(AlbumURI(<<"c">>), <<>>, <<>>, <<"c">>, None) }

\* The positions of the entries that are settled, in ascending order.
SettledPositions(q) == SelectSeq([i \in 1..Len(q) |-> i], LAMBDA i : q[i].stage \in Settled)

CollectionInit ==
    /\ \E s \in SeqsUpTo(CollectionEntries, MaxEntries) :
          entries = [i \in 1..Len(s) |-> [s[i] EXCEPT !.origin = i]]
    /\ sources = <<>>
    /\ settled = <<>>
    /\ cpc = "new"
    /\ catalog = CollectionCatalog
    /\ trk = NoTrack
    /\ reqs = <<>>
    /\ last = NoResponse
    /\ arr = <<>>
    /\ fn = [kind |-> "none"]
    /\ sorted = [threw |-> FALSE, val |-> <<>>]
    /\ spc = "none"
    /\ opts = NoOptions
    /\ hist = <<>>
    /\ ppc = NoStage
    /\ output = <<>>

\* collection.getTracks() -> this.entries.dispatch(): every entry is
\* dispatched; those that need no request settle at once.
CollectionGetTracks ==
    /\ cpc = "new"
    /\ entries' = [i \in 1..Len(entries) |-> DispatchEntry(entries[i])]
    /\ settled' = SettledPositions(entries')
    /\ cpc' = "dispatching"
    /\ UNCHANGED <<sources, catalog, trackVars, sortVars, pipeVars>>

\* The catalog answers the request in flight of one of the entries.
CollectionCatalogReply ==
    /\ cpc = "dispatching"
    /\ \E i \in 1..Len(entries) :
          /\ entries[i].stage \notin Settled
          /\ \E response \in EntryResponses(entries[i], catalog) :
                /\ entries' = [entries EXCEPT ![i] = EntryReply(entries[i], response)]
                /\ settled' = IF entries'[i].stage \in Settled THEN Append(settled, i) ELSE settled
    /\ UNCHANGED <<sources, cpc, catalog, trackVars, sortVars, pipeVars>>

\* Every entry has settled: the promise of entries.dispatch() resolves with
\* the queue of results and the then of getTracks replaces the collection's
\* queue with it, flattened.
CollectionGetTracksThen ==
    /\ cpc = "dispatching"
    /\ \A i \in 1..Len(entries) : entries[i].stage \in Settled
    /\ entries' = GetTracksThen(QueueDispatchResult(entries))
    /\ sources' = entries
    /\ cpc' = "done"
    /\ UNCHANGED <<settled, catalog, trackVars, sortVars, pipeVars>>

CollectionNext == CollectionGetTracks \/ CollectionCatalogReply \/ CollectionGetTracksThen

SpecCollection == CollectionInit /\ [][CollectionNext]_vars

(***************************************************************************)
(* Collection.execute: getTracks, then dedup, order, group, alternate and  *)
(* reorder as the thens of Collection.dispatch, then output.               *)
(*                                                                         *)
(* "ppc.next" is the stage whose then runs next; "ppc.wait" is the         *)
(* position of the track whose property fetch is in flight (0 when none).  *)
(* "hist" is history: the stages started and ended; so is "ppc.before",    *)
(* the origins of the tracks of the queue when the last stage started.     *)
(* An option that is null is the empty string.                             *)
(***************************************************************************)
Event(stage, ev) == [stage |-> stage, ev |-> ev]

Origins(q) == [k \in 1..Len(q) |-> q[k].origin]

\* The thens of dispatch chained with group before order.
StageAfterGroupFirst(stage) ==
    CASE stage = "getTracks" -> "dedup"
      [] stage = "dedup" -> "group"
      [] stage = "group" -> "order"
      [] stage = "order" -> "alternate"
      [] stage = "alternate" -> "reorder"
      [] stage = "reorder" -> "output"
      [] stage = "output" -> "done"

\* The stage after a stage, as the thens of dispatch and execute chain them.
StageAfter(stage) ==
    CASE stage = "getTracks" -> "dedup"
      [] stage = "dedup" -> "order"
      [] stage = "order" -> "group"
      [] stage = "group" -> "alternate"
      [] stage = "alternate" -> "reorder"
      [] stage = "reorder" -> "output"
      [] stage = "output" -> "done"

\* The stages resolving the track's name when their option is null.
StagePropDefaultingToName(o, stage) ==
    LET prop == CASE stage = "order" -> o.ordering
                  [] stage = "group" -> o.grouping
                  [] stage = "alternate" -> o.alternating
    IN  IF prop = "" THEN "name" ELSE prop

\* The option that enables a stage which resolves a property first.
StageProp(o, stage) ==
    CASE stage = "order" -> o.ordering
      [] stage = "group" -> o.grouping
      [] stage = "alternate" -> o.alternating

\* The key function without toLowerCase().
CollectionKeyCaseSensitive(t, prop) ==
    IF IsStringProp(prop) THEN Prop(t, prop)
    ELSE IF Prop(t, prop) = None THEN <<"null">>
    ELSE <<"number", Prop(t, prop)[1]>>

\* The key function of the group and alternate stages: `${track[prop]}`.toLowerCase()
CollectionKey(t, prop) ==
    IF IsStringProp(prop) THEN ToLower(Prop(t, prop))
    ELSE IF Prop(t, prop) = None THEN <<"null">>
    ELSE <<"number", Prop(t, prop)[1]>>

\* The keys the key function gives the entries of the queue.
CollectionKeys(q, prop) == [i \in 1..Len(q) |-> CollectionKey(q[i], prop)]

\* The queue operations with the alternate stage grouping the queue.
StageApplyGroupingForAlternate(o, stage, q) ==
    CASE stage = "order" -> Sort(q, OrderingComparator(o.ordering)).val
      [] stage = "group" -> Group(CollectionKeys(q, o.grouping), q)
      [] stage = "alternate" -> Group(CollectionKeys(q, o.alternating), q)

\* The queue operation a stage ends with, once the property is resolved.
StageApply(o, stage, q) ==
    CASE stage = "order" -> Sort(q, OrderingComparator(o.ordering)).val
      [] stage = "group" -> Group(CollectionKeys(q, o.grouping), q)
      [] stage = "alternate" -> Alternate(CollectionKeys(q, o.alternating), q)

\* if (self[prop]): a string that is not empty, a number that is not 0.
IsSet(t, prop) ==
    IF IsStringProp(prop) THEN Prop(t, prop) # <<>>
    ELSE Prop(t, prop) # None /\ Prop(t, prop)[1] # 0

\* track.getProperty(prop) searching for the track although its id is known.
GetPropertySearching(t, prop) ==
    IF IsSet(t, prop)
    THEN [request |-> "none", track |-> t]
    ELSE IF prop \in {"artist", "name", "album"}
    THEN [request |-> "searchTracks", track |-> t]
    ELSE IF prop = "popularity"
    THEN (IF t.id = <<>> THEN [request |-> "searchTracks", track |-> t]
          ELSE IF t.popularity # None THEN [request |-> "none", track |-> t]
          ELSE [request |-> "getTrack", track |-> t])
    ELSE IF prop = "uri"
    THEN (IF t.id # <<>> THEN [request |-> "none", track |-> [t EXCEPT !.uri = TrackURI(t.id)]]
          ELSE [request |-> "searchTracks", track |-> t])
    ELSE IF prop = "id" THEN [request |-> "searchTracks", track |-> t]
    ELSE [request |-> "none", track |-> t]

\* track.getProperty(prop), up to its first request: a property that is set
\* needs none; a track with an id whose popularity is not a number is
\* fetched; a track without an id is searched for; the URI comes from the id.
GetProperty(t, prop) ==
    IF IsSet(t, prop)
    THEN [request |-> "none", track |-> t]
    ELSE IF prop \in {"popularity", "artist", "name", "album"}
    THEN (IF t.id = <<>> THEN [request |-> "searchTracks", track |-> t]
          ELSE IF t.popularity # None THEN [request |-> "none", track |-> t]
          ELSE [request |-> "getTrack", track |-> t])
    ELSE IF prop = "uri"
    THEN (IF t.id # <<>> THEN [request |-> "none", track |-> [t EXCEPT !.uri = TrackURI(t.id)]]
          ELSE [request |-> "searchTracks", track |-> t])
    ELSE IF prop = "id" THEN [request |-> "searchTracks", track |-> t]
    ELSE [request |-> "none", track |-> t]

\* forEachPromise starting the callbacks from the end of the queue: up to the
\* last entry that has to wait for a request.
FetchFromLast(q, i, prop) ==
    LET waiting == {j \in i..Len(q) : GetProperty(q[j], prop).request # "none"}
    IN  IF waiting = {} THEN [queue |-> q, wait |-> 0]
        ELSE [queue |-> q, wait |-> CHOOSE j \in waiting : \A k \in waiting : k <= j]

\* queue.forEachPromise(entry => entry.getProperty(prop)) from entry i on:
\* one entry after the other, up to the first that has to wait for a request.
RECURSIVE FetchFrom(_, _, _)
FetchFrom(q, i, prop) ==
    IF i > Len(q) THEN [queue |-> q, wait |-> 0]
    ELSE LET g == GetProperty(q[i], prop)
         IN  IF g.request # "none" THEN [queue |-> q, wait |-> i]
             ELSE FetchFrom([q EXCEPT ![i] = g.track], i + 1, prop)

\* Collection.prototype.toURIs: one line per track with a URI, trimmed.
RECURSIVE URILines(_)
URILines(q) ==
    IF Len(q) = 0 THEN <<>>
    ELSE (IF q[1].kind = "track" /\ q[1].uri # <<>> THEN q[1].uri \o <<"nl">> ELSE <<>>)
         \o URILines(Tail(q))

\* toURIs writing a line for every track of the queue, with or without a URI.
ToURIsOfEveryTrack(q) ==
    LET s == Concat([i \in 1..Len(q) |-> q[i].uri \o <<"nl">>])
    IN  IF Len(s) = 0 THEN <<>> ELSE SubSeq(s, 1, Len(s) - 1)

ToURIs(q) ==
    LET s == URILines(q)
    IN  IF Len(s) = 0 THEN <<>> ELSE SubSeq(s, 1, Len(s) - 1)

\* queue.shuffle(): the permutations of the queue it may leave.
Shuffles(q) ==
    {[i \in 1..Len(q) |-> q[f[i]]] :
        f \in {g \in [1..Len(q) -> 1..Len(q)] : \A i, j \in 1..Len(q) : i # j => g[i] # g[j]}}

\* The catalog of this specification: tracks that differ in name and
\* popularity, two of them on albums whose names differ in case only.
PipelineCatalog ==
    [ids |-> {<<"1">>, <<"a", "1">>},
     tracks |-> { CatalogTrack(<<"1">>, <<"b">>, <<"b">>, <<"c">>, Some(1), FALSE, 0),
                  CatalogTrack(<<"a", "1">>, <<"a">>, <<"b">>, <<"A">>, Some(2), FALSE, 0),
                  CatalogTrack(<<"b", "1">>, <<"a">>, <<"b">>, <<"a">>, Some(2), TRUE, 0) }]

PipelineEntries == {NewTrack(TrackURI(id), <<>>, <<>>, <<>>, id) : id \in PipelineCatalog.ids}

PipelineOptions ==
    [unique : BOOLEAN, ordering : {"", "popularity", "name"}, grouping : {"", "album"},
     alternating : {"", "album"}, reverse : BOOLEAN, shuffle : BOOLEAN]

PipelineInit ==
    /\ \E s \in SeqsUpTo(PipelineEntries, MaxQueue) :
          entries = [i \in 1..Len(s) |-> [s[i] EXCEPT !.origin = i]]
    /\ opts \in PipelineOptions
    /\ hist = <<>>
    /\ ppc = [next |-> "dedup", wait |-> 0, before |-> <<>>]
    /\ output = <<>>
    /\ sources = <<>>
    /\ settled = <<>>
    /\ cpc = "new"
    /\ catalog = PipelineCatalog
    /\ trk = NoTrack
    /\ reqs = <<>>
    /\ last = NoResponse
    /\ arr = <<>>
    /\ fn = [kind |-> "none"]
    /\ sorted = [threw |-> FALSE, val |-> <<>>]
    /\ spc = "none"

\* One line of the request log for the property fetch of the track at position i.
PropertyRequest(q, i, stage) ==
    [req |-> [op |-> "getTrack", q |-> q[i].id], stage |-> stage,
     phase |-> "property", result |-> "pending"]

\* The property fetches of a stage have gone on from entry i: either a track
\* has to wait for a request, or all are done and the stage's queue
\* operation is applied to the collection's queue, which ends the stage.
StageContinues(stage, q, i, log, events, before) ==
    LET f == FetchFrom(q, i, StageProp(opts, stage))
    IN  IF f.wait = 0
        THEN /\ entries' = StageApply(opts, stage, f.queue)
             /\ hist' = Append(events, Event(stage, "end"))
             /\ ppc' = [next |-> StageAfter(stage), wait |-> 0, before |-> before]
             /\ reqs' = log
        ELSE /\ entries' = f.queue
             /\ hist' = events
             /\ ppc' = [next |-> stage, wait |-> f.wait, before |-> before]
             /\ reqs' = Append(log, PropertyRequest(f.queue, f.wait, stage))

\* .then(() => this.dedup()): the queue is deduplicated when unique is set.
PipelineDedup ==
    /\ cpc = "done"
    /\ ppc.next = "dedup"
    /\ entries' = IF opts.unique THEN Dedup(entries) ELSE entries
    /\ hist' = hist \o <<Event("dedup", "start"), Event("dedup", "end")>>
    /\ ppc' = [next |-> StageAfter("dedup"), wait |-> 0, before |-> Origins(entries)]
    /\ UNCHANGED <<opts, output, sources, settled, cpc, catalog, trackVars, sortVars>>

\* .then(() => this.order()), .then(() => this.group()) and
\* .then(() => this.alternate()): without the option the stage resolves with
\* the queue as it is; with it the property is resolved on every track, one
\* after the other, and then the queue is sorted, grouped or alternated.
PipelineStage(stage) ==
    /\ cpc = "done"
    /\ ppc.next = stage
    /\ ppc.wait = 0
    /\ IF StageProp(opts, stage) = ""
       THEN /\ hist' = hist \o <<Event(stage, "start"), Event(stage, "end")>>
            /\ ppc' = [next |-> StageAfter(stage), wait |-> 0, before |-> Origins(entries)]
            /\ UNCHANGED <<entries, reqs>>
       ELSE StageContinues(stage, entries, 1, reqs, Append(hist, Event(stage, "start")),
                           Origins(entries))
    /\ UNCHANGED <<opts, output, sources, settled, cpc, catalog, trk, last, sortVars>>

PipelineOrder == PipelineStage("order")

PipelineGroup == PipelineStage("group")

PipelineAlternate == PipelineStage("alternate")

\* The property fetch in flight answered by a collection that recovers a
\* failed fetch and goes on with the next track.
PipelinePropertyReplyRecovering ==
    /\ ppc.wait > 0
    /\ \E response \in GetTrackResponses(entries[ppc.wait].id, catalog) :
          LET r == GetTrackThen(entries[ppc.wait], response)
          IN  IF r.ok
              THEN StageContinues(ppc.next, [entries EXCEPT ![ppc.wait] = r.track], ppc.wait + 1,
                                  SetLastResult(reqs, "succeeded"), hist, ppc.before)
              ELSE StageContinues(ppc.next, entries, ppc.wait + 1,
                                  SetLastResult(reqs, "failed"), hist, ppc.before)
    /\ UNCHANGED <<opts, output, sources, settled, cpc, catalog, trk, last, sortVars>>

\* The catalog answers the property fetch in flight: the body is cloned onto
\* the track and the next track's property is resolved; a failed fetch
\* rejects getProperty, forEachPromise, the stage and so dispatch and execute.
PipelinePropertyReply ==
    /\ ppc.wait > 0
    /\ \E response \in GetTrackResponses(entries[ppc.wait].id, catalog) :
          LET r == GetTrackThen(entries[ppc.wait], response)
          IN  IF r.ok
              THEN StageContinues(ppc.next, [entries EXCEPT ![ppc.wait] = r.track], ppc.wait + 1,
                                  SetLastResult(reqs, "succeeded"), hist, ppc.before)
              ELSE /\ ppc' = [next |-> "rejected", wait |-> 0, before |-> ppc.before]
                   /\ hist' = Append(hist, Event(ppc.next, "rejected"))
                   /\ reqs' = SetLastResult(reqs, "failed")
                   /\ UNCHANGED entries
    /\ UNCHANGED <<opts, output, sources, settled, cpc, catalog, trk, last, sortVars>>

\* reorder() testing the shuffle option before the reverse option.
PipelineReorderShuffleFirst ==
    /\ cpc = "done"
    /\ ppc.next = "reorder"
    /\ IF opts.shuffle THEN entries' \in Shuffles(entries)
       ELSE IF opts.reverse THEN entries' = Reverse(entries)
       ELSE entries' = entries
    /\ hist' = hist \o <<Event("reorder", "start"), Event("reorder", "end")>>
    /\ ppc' = [next |-> StageAfter("reorder"), wait |-> 0, before |-> Origins(entries)]
    /\ UNCHANGED <<opts, output, sources, settled, cpc, catalog, trackVars, sortVars>>

\* .then(() => this.reorder()): reversed when reverse is set, otherwise
\* shuffled when shuffle is set, otherwise as it is.
PipelineReorder ==
    /\ cpc = "done"
    /\ ppc.next = "reorder"
    /\ IF opts.reverse THEN entries' = Reverse(entries)
       ELSE IF opts.shuffle THEN entries' \in Shuffles(entries)
       ELSE entries' = entries
    /\ hist' = hist \o <<Event("reorder", "start"), Event("reorder", "end")>>
    /\ ppc' = [next |-> StageAfter("reorder"), wait |-> 0, before |-> Origins(entries)]
    /\ UNCHANGED <<opts, output, sources, settled, cpc, catalog, trackVars, sortVars>>

\* execute(): .then(() => this.output())
PipelineOutput ==
    /\ cpc = "done"
    /\ ppc.next = "output"
    /\ output' = ToURIs(entries)
    /\ hist' = hist \o <<Event("output", "start"), Event("output", "end")>>
    /\ ppc' = [next |-> StageAfter("output"), wait |-> 0, before |-> Origins(entries)]
    /\ UNCHANGED <<opts, entries, sources, settled, cpc, catalog, trackVars, sortVars>>

PipelineNext ==
    \/ CollectionGetTracks
    \/ CollectionGetTracksThen
    \/ PipelineDedup
    \/ PipelineOrder
    \/ PipelineGroup
    \/ PipelineAlternate
    \/ PipelinePropertyReply
    \/ PipelineReorder
    \/ PipelineOutput

SpecPipeline == PipelineInit /\ [][PipelineNext]_vars

(***************************************************************************)
(* Collection.execute on a collection whose entries may fail to resolve:   *)
(* the entries are dispatched, the catalog answers in any interleaving,    *)
(* and the stages and the output follow.                                   *)
(***************************************************************************)

\* The catalog of this specification: it knows one track identifier, and
\* one of the two tracks it returns in searches and album listings comes
\* without a URI.
ExecuteCatalog ==
    [ids |-> {<<"a">>},
     tracks |-> { CatalogTrack(<<"a", "1">>, <<"a">>, <<"b">>, <<"c">>, Some(2), FALSE, 1),
                  [CatalogTrack(<<"b", "1">>, <<"b">>, <<"b">>, <<"c">>, Some(1), FALSE, 1)
                      EXCEPT !.uri = <<>>] }]

ExecuteOptions ==
    [unique : BOOLEAN, ordering : {"", "popularity"}, grouping : {""}, alternating : {""},
     reverse : BOOLEAN, shuffle : {FALSE}]

ExecuteInit ==
    /\ \E s \in SeqsUpTo(CollectionEntries, MaxLines) :
          entries = [i \in 1..Len(s) |-> [s[i] EXCEPT !.origin = i]]
    /\ opts \in ExecuteOptions
    /\ hist = <<>>
    /\ ppc = [next |-> "dedup", wait |-> 0, before |-> <<>>]
    /\ output = <<>>
    /\ sources = <<>>
    /\ settled = <<>>
    /\ cpc = "new"
    /\ catalog = ExecuteCatalog
    /\ trk = NoTrack
    /\ reqs = <<>>
    /\ last = NoResponse
    /\ arr = <<>>
    /\ fn = [kind |-> "none"]
    /\ sorted = [threw |-> FALSE, val |-> <<>>]
    /\ spc = "none"

ExecuteNext ==
    \/ CollectionGetTracks
    \/ CollectionCatalogReply
    \/ CollectionGetTracksThen
    \/ PipelineDedup
    \/ PipelineOrder
    \/ PipelineGroup
    \/ PipelineAlternate
    \/ PipelinePropertyReply
    \/ PipelineReorder
    \/ PipelineOutput

SpecExecute == ExecuteInit /\ [][ExecuteNext]_vars

(***************************************************************************)
(* The queue specification: the operations of the queue applied to every   *)
(* queue of up to MaxLen tracks.  "entries" is the queue, "sources" the    *)
(* queue before the last operation, "cpc" the operation applied last.      *)
(***************************************************************************)
\* A track as a catalog response or a test leaves it: with a URI, a title
\* and an album.
QueueTrack(uri, title, album) ==
    [NewTrack(title, <<>>, <<>>, <<>>, <<>>) EXCEPT !.uri = uri, !.title = title, !.album = album]

QueueTracks ==
    { QueueTrack(TrackURI(<<"1">>), <<"b", " ", "-", " ", "a">>, <<"c">>),
      QueueTrack(TrackURI(<<"a", "1">>), <<"b", " ", "-", " ", "a">>, <<"A">>),
      QueueTrack(TrackURI(<<"1">>), <<"c">>, <<"a">>),
      QueueTrack(<<>>, <<"b", " ", "-", " ", "a">>, <<"c">>),
      QueueTrack(<<>>, <<"b", " ", "A", "!">>, <<"a">>),
      QueueTrack(<<>>, <<"!">>, <<"c">>),
      QueueTrack(<<>>, <<>>, <<>>) }

\* new Queue(elements) as an element of another queue.
QueueOf(q) == [kind |-> "queue", queue |-> q]

\* The ways to cut a queue into consecutive, non-empty pieces.
RECURSIVE Pieces(_)
Pieces(q) ==
    IF Len(q) = 0 THEN {<<>>}
    ELSE UNION {{<<SubSeq(q, 1, k)>> \o r : r \in Pieces(SubSeq(q, k + 1, Len(q)))} : k \in 1..Len(q)}

\* The sequences that take their k-th element from the k-th set.
RECURSIVE Choices(_)
Choices(sets) ==
    IF Len(sets) = 0 THEN {<<>>}
    ELSE {<<a>> \o r : a \in sets[1], r \in Choices(Tail(sets))}

\* The queues whose elements are the pieces of q: a piece is a queue of
\* its tracks, or the track itself when it is a single one.
NestOnce(q) ==
    UNION {Choices([i \in 1..Len(ps) |->
                      (IF Len(ps[i]) = 1 THEN {ps[i][1]} ELSE {})
                      \cup {QueueOf(ps[i])}]) : ps \in Pieces(q)}

\* The same two levels deep: a piece is a queue of tracks and queues of
\* tracks, or the track itself when it is a single one.
NestTwice(q) ==
    UNION {Choices([i \in 1..Len(ps) |->
                      (IF Len(ps[i]) = 1 THEN {ps[i][1]} ELSE {})
                      \cup {QueueOf(x) : x \in NestOnce(ps[i])}]) : ps \in Pieces(q)}

\* The tracks that are put into nested queues.
NestedTracks == {t \in QueueTracks : t.uri # <<>> /\ t.album # <<"a">>}

IsFlat(q) == \A k \in 1..Len(q) : q[k].kind = "track"

QueueInit ==
    /\ \/ \E s \in SeqsUpTo(QueueTracks, MaxLen) :
             entries = [i \in 1..Len(s) |-> [s[i] EXCEPT !.origin = i]]
       \/ \E s \in SeqsUpTo(NestedTracks, MaxLen) :
             entries \in NestTwice([i \in 1..Len(s) |-> [s[i] EXCEPT !.origin = i]])
    /\ sources = <<>>
    /\ settled = <<>>
    /\ cpc = "new"
    /\ opts = NoOptions
    /\ hist = <<>>
    /\ ppc = NoStage
    /\ output = <<>>
    /\ catalog = NoCatalog
    /\ trk = NoTrack
    /\ reqs = <<>>
    /\ last = NoResponse
    /\ arr = <<>>
    /\ fn = [kind |-> "none"]
    /\ sorted = [threw |-> FALSE, val |-> <<>>]
    /\ spc = "none"

\* queue.dedup()
QueueDedup ==
    /\ cpc = "new"
    /\ IsFlat(entries)
    /\ entries' = Dedup(entries)
    /\ sources' = entries
    /\ cpc' = "dedup"
    /\ UNCHANGED <<settled, catalog, trackVars, sortVars, pipeVars>>

\* queue.dedup() on the queue dedup() left
QueueDedupAgain ==
    /\ cpc = "dedup"
    /\ entries' = Dedup(entries)
    /\ sources' = entries
    /\ cpc' = "dedup again"
    /\ UNCHANGED <<settled, catalog, trackVars, sortVars, pipeVars>>

\* The then of getTracks on a queue of results: this.entries = queue.flatten()
QueueFlatten ==
    /\ cpc = "new"
    /\ entries' = GetTracksThen(entries)
    /\ sources' = entries
    /\ cpc' = "flatten"
    /\ UNCHANGED <<settled, catalog, trackVars, sortVars, pipeVars>>

QueueNext ==
    \/ QueueDedup
    \/ QueueDedupAgain
    \/ QueueFlatten

SpecQueue == QueueInit /\ [][QueueNext]_vars

(***************************************************************************)
(* util.paging and Artist.                                                 *)
(*                                                                         *)
(* A paged request is [op, q, offset]: offset is None for the first page   *)
(* (no offset option) and Some(n) after n items; a page is [ok, items,     *)
(* next].  "paged" is the result accumulated so far, None before the first *)
(* page.  An Artist's "albums" is None for null and Some(items) for a      *)
(* list; "albumQueue" is the queue of Album objects of createQueue, "wait" *)
(* the place in it of the album whose popularity is being fetched.         *)
(***************************************************************************)
\* The page of a list the catalog returns for an offset.
PageOf(list, offset) ==
    LET from == IF offset = None THEN 0 ELSE offset[1]
    IN  [ok |-> TRUE, items |-> Slice(list, from, from + PageSize),
         next |-> from + PageSize < Len(list)]

\* The then of util.paging keeping the latest page only.
PagingThenLatestPage(paged, response) == [items |-> response.items, more |-> response.next]

\* The then of util.paging for one page: the items are added to those of the
\* pages before it, and another page is asked for when there is a next one.
PagingThen(paged, response) ==
    [items |-> IF paged = None THEN response.items ELSE paged[1] \o response.items,
     more |-> response.next]

\* util.paging leaving options.offset as it was.
PagingOffsetUnset(paged) == None

\* options.offset = currentResult.body.items.length
PagingOffset(paged) == IF paged = None THEN None ELSE Some(Len(paged[1]))

\* str.includes(sub)
Includes(str, sub) ==
    \E k \in 0..(Len(str) - Len(sub)) : SubSeq(str, k + 1, k + Len(sub)) = sub

\* Track.prototype.hasArtist
HasArtist(t, artist) ==
    LET target == ToLower(Trim(artist))
    IN  \E i \in 1..Len(t.artists) : Includes(Trim(ToLower(t.artists[i])), target)

\* sort.similarArtist(artist)
SortSimilarArtist == Descending("similarity")

\* new Artist(spotify, entry, id, limit)
NewArtist(entry, id, limit) ==
    [kind |-> "artist", origin |-> 0, entry |-> Trim(entry), id |-> id, limit |-> limit,
     name |-> <<>>, albums |-> None, stage |-> "new", paged |-> None,
     albumQueue |-> <<>>, wait |-> 0, queue |-> <<>>]

\* Artist.prototype.clone of an artist object of the catalog.
ArtistClone(a, item) == [a EXCEPT !.id = item.id, !.name = item.name]

ArtistSearchStages == {"search", "searchAgain", "searchSimplified"}

\* The query of a search attempt: artist || this.artist || this.entry, and
\* its simplified form.
ArtistQuery(a, stage) ==
    IF stage = "searchSimplified" THEN ToAscii(StripNoise(a.entry)) ELSE a.entry

\* The last catch of searchQuery: the query as an identifier, or not found.
ArtistIdentOrReject(a) == IF IsIdentifier(a.entry) THEN "albumsAsId" ELSE "rejected"

\* The catch handlers of searchArtists without the second search for the
\* same query.
ArtistNextStageNoRepeat(a, stage) ==
    CASE stage \in {"search", "searchAgain"} ->
            LET str == ToAscii(StripNoise(a.entry))
            IN  IF str # <<>> /\ str # a.entry THEN "searchSimplified" ELSE ArtistIdentOrReject(a)
      [] OTHER -> ArtistIdentOrReject(a)

\* The attempt the catch handlers of searchArtists make after `stage` failed:
\* search(artist), then searchQuery(artist), which searches for the same
\* query again, then for its simplified form when that differs, then takes
\* the query for an identifier.
ArtistNextStage(a, stage) ==
    CASE stage = "search" -> "searchAgain"
      [] stage = "searchAgain" ->
            LET str == ToAscii(StripNoise(a.entry))
            IN  IF str # <<>> /\ str # a.entry THEN "searchSimplified" ELSE ArtistIdentOrReject(a)
      [] OTHER -> ArtistIdentOrReject(a)

\* The request in flight.
ArtistRequest(a) ==
    CASE a.stage \in ArtistSearchStages ->
            [op |-> "searchArtists", q |-> ArtistQuery(a, a.stage)]
      [] a.stage = "albumsAsId" ->
            [op |-> "getArtistAlbums", q |-> a.entry, offset |-> PagingOffset(a.paged)]
      [] a.stage = "getArtistAlbums" ->
            [op |-> "getArtistAlbums", q |-> a.id, offset |-> PagingOffset(a.paged)]
      [] OTHER ->
            [op |-> "getAlbum", q |-> a.albumQueue[a.wait].id]

\* this.albums = response.body.items; this.id = id, s being the outcome of
\* the sort before it: an exception of the sort rejects.
ArtistKeepAlbums(a, s, id) ==
    IF s.threw THEN [a EXCEPT !.stage = "rejected", !.paged = None]
    ELSE [a EXCEPT !.albums = Some(s.val), !.id = id, !.stage = "found", !.paged = None]

\* The then of getArtistAlbums: the complete list is sorted with sort.album
\* and kept.
ArtistGetArtistAlbumsThen(a, items, id) == ArtistKeepAlbums(a, Sort(items, SortAlbum), id)

\* One page of getArtistAlbums(id) arrives, or the request fails.
ArtistPageReply(a, response, id) ==
    IF ~response.ok THEN [a EXCEPT !.stage = "rejected", !.paged = None]
    ELSE LET p == PagingThen(a.paged, response)
         IN  IF p.more THEN [a EXCEPT !.paged = Some(p.items)]
             ELSE ArtistGetArtistAlbumsThen(a, p.items, id)

\* Artist.prototype.searchArtists up to its first request: an artist with an
\* id is not searched for.
ArtistSearchArtists(a) ==
    IF a.id # <<>> THEN [a EXCEPT !.stage = "found"] ELSE [a EXCEPT !.stage = "search"]

\* The handlers of searchArtists take the answer to the request in flight:
\* the hits are sorted by similarity and the first is cloned; no hit or a
\* failed request goes on to the next attempt.  The stage is "found" when
\* searchArtists resolves and "rejected" when it rejects.
ArtistSearchReply(a, response) ==
    IF a.stage = "albumsAsId" THEN ArtistPageReply(a, response, a.entry)
    ELSE IF response.ok /\ Len(response.items) > 0
    THEN [ArtistClone(a, Sort(response.items, SortSimilarArtist).val[1]) EXCEPT !.stage = "found"]
    ELSE [a EXCEPT !.stage = ArtistNextStage(a, a.stage)]

\* Album.prototype.clone of an album object of an artist's album list, which
\* has no track list and no popularity.
AlbumCloneItem(a, item) ==
    [a EXCEPT !.id = item.id, !.name = item.name, !.uri = item.uri,
              !.album_type = item.album_type]

\* The filter of createQueue keeping every track.
ArtistFilterKeepingAll(a, t) == TRUE

\* The filter of createQueue: this.name ? track.hasArtist(this.name) : true
ArtistFilter(a, t) == IF a.name # <<>> THEN HasArtist(t, a.name) ELSE TRUE

\* .then(queue => queue.flatten()) and the filter, albums being the albums
\* as their dispatch left them.
ArtistFlattenAndFilter(a, albums) ==
    [a EXCEPT !.albumQueue = albums, !.wait = 0, !.stage = "resolved",
              !.queue = SelectSeq(Flatten(QueueDispatchResult(albums)),
                                  LAMBDA t : ArtistFilter(a, t))]

\* .then(() => albumQueue.dispatch()), s being the outcome of the sort
\* before it.
ArtistDispatchAlbums(a, s) ==
    IF s.threw THEN [a EXCEPT !.stage = "rejected"]
    ELSE ArtistFlattenAndFilter(a, [i \in 1..Len(s.val) |-> DispatchAlbum(s.val[i])])

\* The last thens of createQueue: the albums are sorted with sort.album and
\* dispatched, each resolving at once with the queue of its tracks; the
\* result is flattened and filtered.  An exception of the sort rejects.
ArtistCreateQueueThen(a) == ArtistDispatchAlbums(a, Sort(a.albumQueue, SortAlbum))

\* albumQueue.forEachPromise(album => album.getPopularity()) from album i on:
\* one album after the other, up to the first whose popularity has to be
\* fetched.
RECURSIVE ArtistForEachFrom(_, _)
ArtistForEachFrom(a, i) ==
    IF i > Len(a.albumQueue) THEN ArtistCreateQueueThen(a)
    ELSE IF a.albumQueue[i].popularity # None THEN ArtistForEachFrom(a, i + 1)
    ELSE [a EXCEPT !.stage = "getPopularity", !.wait = i]

\* The albums createQueue makes its queue from: this.albums.
ArtistAlbums(a) == a.albums[1]

\* Artist.prototype.createQueue up to its first request: an Album per item of
\* the list, cut to the limit when there is one.
ArtistCreateQueue(a) ==
    LET items == ArtistAlbums(a)
        albums == [i \in 1..Len(items) |->
                     [AlbumCloneItem(NewAlbum(a.entry, <<>>, <<>>, <<>>, None), items[i])
                        EXCEPT !.origin = i]]
        cut == IF a.limit # None /\ a.limit # Some(0) THEN Slice(albums, 0, a.limit[1]) ELSE albums
    IN  ArtistForEachFrom([a EXCEPT !.albumQueue = cut], 1)

\* Artist.prototype.getArtistAlbums without the test of this.albums.
ArtistGetArtistAlbumsAgain(a) == [a EXCEPT !.stage = "getArtistAlbums"]

\* Artist.prototype.getArtistAlbums up to its first request: a list that is
\* set is used.
ArtistGetArtistAlbums(a) ==
    IF a.albums # None THEN ArtistCreateQueue(a) ELSE [a EXCEPT !.stage = "getArtistAlbums"]

\* What follows searchArtists in Artist.prototype.dispatch.
ArtistAfterSearch(a) == IF a.stage = "found" THEN ArtistGetArtistAlbums(a) ELSE a

\* What follows getArtistAlbums in Artist.prototype.dispatch.
ArtistAfterAlbums(a) == IF a.stage = "found" THEN ArtistCreateQueue(a) ELSE a

\* Artist.prototype.dispatch up to its first request.
DispatchArtist(a) == ArtistAfterSearch(ArtistSearchArtists(a))

\* The handlers of Artist.prototype.dispatch take the answer to the request
\* in flight; every rejection ends in the catch of dispatch, which rejects.
ArtistReply(a, response) ==
    IF a.stage \in ArtistSearchStages \cup {"albumsAsId"}
    THEN ArtistAfterSearch(ArtistSearchReply(a, response))
    ELSE IF a.stage = "getArtistAlbums"
    THEN ArtistAfterAlbums(ArtistPageReply(a, response, a.id))
    ELSE IF ~response.ok THEN [a EXCEPT !.stage = "rejected"]
    ELSE ArtistForEachFrom(
            [a EXCEPT !.albumQueue[a.wait] = AlbumClone(@, response.items[1])], a.wait + 1)

\* What the catalog may answer to an artist's request in flight: a search
\* fails or returns the catalog's artists, a page of the album list fails or
\* is returned, the fetch of an album fails or returns the album.
ArtistResponses(a, cat) ==
    CASE a.stage \in ArtistSearchStages ->
            {Rejected, [ok |-> TRUE, items |-> cat.artists]}
      [] a.stage \in {"albumsAsId", "getArtistAlbums"} ->
            {[ok |-> FALSE], PageOf(cat.albums, PagingOffset(a.paged))}
      [] OTHER ->
            {Rejected, [ok |-> TRUE, items |-> <<cat.album[a.albumQueue[a.wait].id]>>]}

(***************************************************************************)
(* Top and Similar.                                                        *)
(*                                                                         *)
(* A Top entry resolves with the queue of an artist's top tracks; a        *)
(* Similar entry looks up the artist it is given, fetches the related      *)
(* artists, dispatches a queue of Top entries, one per related artist, and *)
(* resolves with the interleaved result.  The object is in trk, the Top    *)
(* entries in entries (in sources once the result has replaced them), the  *)
(* requests in reqs.  "limit" is None for undefined.                       *)
(***************************************************************************)
\* obj[name] of an object that may have no such property: undefined is None.
Field(obj, name) == IF name \in DOMAIN obj THEN Some(obj[name]) ELSE None

\* this.artistLimit = 20
DefaultArtistLimit == 20

\* this.trackLimit = 5
DefaultTrackLimit == 5

\* new Top(spotify, entry, id, limit)
NewTop(entry, id, limit) ==
    [kind |-> "top", origin |-> 0, entry |-> Trim(entry), id |-> id, limit |-> limit,
     tracks |-> None, queue |-> <<>>, stage |-> "new", finder |-> [stage |-> "none"]]

\* Top.prototype.createQueue: a track per top track, cut to the limit when
\* there is one.
TopCreateQueue(top) ==
    LET items == top.tracks[1]
        tracks == [i \in 1..Len(items) |->
                     [Clone(NewTrack(top.entry, <<>>, <<>>, <<>>, <<>>), items[i])
                        EXCEPT !.origin = top.origin]]
    IN  IF top.limit # None /\ top.limit # Some(0)
        THEN Slice(tracks, 0, top.limit[1])
        ELSE tracks

\* Top.prototype.dispatch up to its first request: searchArtists resolves at
\* once when the id is known, and otherwise has a new Artist of the same
\* entry string search ("finder").
DispatchTop(top) ==
    IF top.id # <<>> THEN [top EXCEPT !.stage = "getArtistTopTracks"]
    ELSE [top EXCEPT !.stage = "searchArtists",
                     !.finder = ArtistSearchArtists(NewArtist(top.entry, <<>>, None))]

\* The request a dispatched Top entry has in flight.
TopRequest(top) ==
    IF top.stage = "searchArtists" THEN ArtistRequest(top.finder)
    ELSE [op |-> "getArtistTopTracks", q |-> top.id]

\* The then of getArtistTopTracks without the sort.
TopTracksThenUnsorted(tracks) == tracks

\* The then of getArtistTopTracks: sort(response.body.tracks, sort.popularity)
TopTracksThen(tracks) == Sort(tracks, SortPopularity).val

\* The then of Top.prototype.searchArtists, f being the Artist as its search
\* left it: this.id = artist.id when it has found the artist.
TopSearchArtistsThen(top, f) ==
    IF f.stage = "found"
    THEN [top EXCEPT !.finder = f, !.id = f.id, !.stage = "getArtistTopTracks"]
    ELSE IF f.stage = "rejected" THEN [top EXCEPT !.finder = f, !.stage = "rejected"]
    ELSE [top EXCEPT !.finder = f]

\* .then(() => this.createQueue())
TopThenCreateQueue(top) == [top EXCEPT !.queue = TopCreateQueue(top), !.stage = "resolved"]

\* The handlers of Top.prototype.dispatch take the answer to the request in
\* flight: the search of the Artist goes on or gives the id, or the top
\* tracks arrive, which are sorted by popularity and made into the queue; a
\* search that rejects or a failed request rejects the entry.
TopReply(top, response) ==
    IF top.stage = "searchArtists"
    THEN TopSearchArtistsThen(top, ArtistSearchReply(top.finder, response))
    ELSE IF ~response.ok THEN [top EXCEPT !.stage = "rejected"]
    ELSE TopThenCreateQueue([top EXCEPT !.tracks = Some(TopTracksThen(response.tracks))])

\* new Similar(spotify, entry, id, trackLimit, artistLimit); a limit of None
\* is one that was not given.
NewSimilar(entry, id, trackLimit, artistLimit) ==
    [kind |-> "similar", entry |-> Trim(entry), id |-> id, given |-> id, artists |-> None,
     trackLimit |-> IF trackLimit = None \/ trackLimit = Some(0)
                    THEN DefaultTrackLimit ELSE trackLimit[1],
     artistLimit |-> IF artistLimit = None \/ artistLimit = Some(0)
                     THEN DefaultArtistLimit ELSE artistLimit[1]]

\* Similar.prototype.createQueue handing its trackLimit to the Top entries.
SimilarCreateQueueWithTrackLimit(s) ==
    LET artists == s.artists[1]
        tops == [i \in 1..Len(artists) |->
                   [NewTop(s.entry, artists[i].id, Some(s.trackLimit)) EXCEPT !.origin = i]]
    IN  Slice(tops, 0, s.artistLimit)

\* Similar.prototype.createQueue up to the dispatch of the queue: a Top entry
\* per related artist, given this.limit, and the queue cut to artistLimit.
SimilarCreateQueue(s) ==
    LET artists == s.artists[1]
        tops == [i \in 1..Len(artists) |->
                   [NewTop(s.entry, artists[i].id, Field(s, "limit")) EXCEPT !.origin = i]]
    IN  Slice(tops, 0, s.artistLimit)

\* The then of createQueue's dispatch, flattening the result.
SimilarCreateQueueThenFlattening(result) == Flatten(result)

\* The then of createQueue's dispatch: result => result.interleave()
SimilarCreateQueueThen(result) == Interleave([i \in 1..Len(result) |-> result[i].queue])

\* The catalog of this specification: three related artists with three, one
\* and two top tracks, listed out of the order of their popularity.
ArtistIds == {<<"a">>, <<"b">>, <<"c">>}

SeedArtistId == <<"1">>

TopTracksOf ==
    [id \in ArtistIds |->
        CASE id = <<"a">> ->
                << CatalogTrack(<<"a", "1">>, <<"a">>, <<"a">>, <<"c">>, Some(1), FALSE, 0),
                   CatalogTrack(<<"a", "a">>, <<"b">>, <<"a">>, <<"c">>, Some(3), FALSE, 0),
                   CatalogTrack(<<"a", "b">>, <<"c">>, <<"a">>, <<"c">>, Some(2), FALSE, 0) >>
          [] id = <<"b">> ->
                << CatalogTrack(<<"b", "1">>, <<"a">>, <<"b">>, <<"c">>, Some(2), FALSE, 0) >>
          [] id = <<"c">> ->
                << CatalogTrack(<<"c", "1">>, <<"a">>, <<"c">>, <<"c">>, Some(1), FALSE, 0),
                   CatalogTrack(<<"c", "a">>, <<"b">>, <<"c">>, <<"c">>, Some(1), FALSE, 0) >>]

\* The lists of related artists the catalog may return.
RelatedArtists ==
    {[i \in 1..Len(s) |-> [id |-> s[i]]] :
        s \in {s \in SeqsUpTo(ArtistIds, MaxArtists) : \A i, j \in 1..Len(s) : i # j => s[i] # s[j]}}

SimilarLimits == {None, Some(1), Some(2)}

SimilarInit ==
    /\ \E trackLimit \in SimilarLimits, artistLimit \in SimilarLimits, id \in {<<>>, <<"b">>} :
          trk = NewSimilar(<<"a", " ">>, id, trackLimit, artistLimit)
    /\ catalog \in [seed : {SeedArtistId}, related : RelatedArtists, top : {TopTracksOf}]
    /\ reqs = <<>>
    /\ last = NoResponse
    /\ entries = <<>>
    /\ sources = <<>>
    /\ settled = <<>>
    /\ cpc = "new"
    /\ opts = NoOptions
    /\ hist = <<>>
    /\ ppc = NoStage
    /\ output = <<>>
    /\ arr = <<>>
    /\ fn = [kind |-> "none"]
    /\ sorted = [threw |-> FALSE, val |-> <<>>]
    /\ spc = "none"

\* Similar.prototype.dispatch up to its first request: searchArtists() asks
\* for the artist by the entry string, whether or not an id was given.
SimilarDispatch ==
    /\ cpc = "new"
    /\ reqs' = Append(reqs, [op |-> "searchArtists", q |-> trk.entry])
    /\ cpc' = "searchArtists"
    /\ UNCHANGED <<trk, last, catalog, entries, sources, settled, sortVars, pipeVars>>

\* The search settles: the artist found gives the id and getArtistRelatedArtists
\* is requested; no artist found rejects the dispatch.
SimilarSearchArtistsReply ==
    /\ cpc = "searchArtists"
    /\ \E found \in BOOLEAN :
          IF found
          THEN /\ trk' = [trk EXCEPT !.id = catalog.seed]
               /\ reqs' = Append(reqs, [op |-> "getArtistRelatedArtists", q |-> catalog.seed])
               /\ cpc' = "getArtistRelatedArtists"
          ELSE /\ cpc' = "rejected"
               /\ UNCHANGED <<trk, reqs>>
    /\ UNCHANGED <<last, catalog, entries, sources, settled, sortVars, pipeVars>>

\* getArtistRelatedArtists settles: the artists are kept and createQueue
\* dispatches its queue of Top entries; a failed request rejects the dispatch.
SimilarRelatedArtistsReply ==
    /\ cpc = "getArtistRelatedArtists"
    /\ \E ok \in BOOLEAN :
          IF ok
          THEN LET s == [trk EXCEPT !.artists = Some(catalog.related)]
                   queue == SimilarCreateQueue(s)
                   tops == [i \in 1..Len(queue) |-> DispatchTop(queue[i])]
               IN  /\ trk' = s
                   /\ entries' = tops
                   /\ reqs' = reqs \o [i \in 1..Len(tops) |-> TopRequest(tops[i])]
                   /\ cpc' = "dispatching"
          ELSE /\ cpc' = "rejected"
               /\ UNCHANGED <<trk, reqs, entries>>
    /\ UNCHANGED <<last, catalog, sources, settled, sortVars, pipeVars>>

\* What the catalog may answer to a Top entry's request in flight.
TopResponses(top, cat) ==
    IF top.stage = "searchArtists" THEN ArtistResponses(top.finder, cat)
    ELSE {[ok |-> TRUE, tracks |-> cat.top[top.id]], [ok |-> FALSE]}

\* Top entry i has gone from its handlers to its next request or has settled.
SimilarTopGoesOn(i, top) ==
    /\ entries' = [entries EXCEPT ![i] = top]
    /\ settled' = IF top.stage \in Settled THEN Append(settled, i) ELSE settled
    /\ reqs' = IF top.stage \in Settled THEN reqs ELSE Append(reqs, TopRequest(top))

\* The request of one of the Top entries settles; the entries settle in any
\* order.
SimilarTopReply ==
    /\ cpc = "dispatching"
    /\ \E i \in 1..Len(entries) :
          /\ entries[i].stage \notin Settled
          /\ \E response \in TopResponses(entries[i], catalog) :
                SimilarTopGoesOn(i, TopReply(entries[i], response))
    /\ UNCHANGED <<trk, last, catalog, sources, cpc, sortVars, pipeVars>>

\* Every Top entry has settled: the dispatch of the queue resolves and the
\* result is interleaved.
SimilarCreateQueueDone ==
    /\ cpc = "dispatching"
    /\ \A i \in 1..Len(entries) : entries[i].stage \in Settled
    /\ entries' = SimilarCreateQueueThen(QueueDispatchResult(entries))
    /\ sources' = entries
    /\ cpc' = "done"
    /\ UNCHANGED <<trk, reqs, last, catalog, settled, sortVars, pipeVars>>

SimilarNext ==
    \/ SimilarDispatch
    \/ SimilarSearchArtistsReply
    \/ SimilarRelatedArtistsReply
    \/ SimilarTopReply
    \/ SimilarCreateQueueDone

SpecSimilar == SimilarInit /\ [][SimilarNext]_vars

(***************************************************************************)
(* Playlist.                                                               *)
(*                                                                         *)
(* "owner" is the owner's id, empty when unknown; "items" is None for null *)
(* and Some(list) for a list, whose elements are the tracks of the items.  *)
(***************************************************************************)
\* `spotify:user:${owner}:playlist:${id}`
PlaylistURI(owner, id) == <<"spotify:user:">> \o owner \o <<":playlist:">> \o id

\* new Playlist(spotify, entry, owner, id, limit)
NewPlaylist(entry, owner, id, limit) ==
    [kind |-> "playlist", origin |-> 0, entry |-> Trim(entry), id |-> id, owner |-> owner,
     limit |-> limit, items |-> None,
     uri |-> IF owner # <<>> /\ id # <<>> THEN PlaylistURI(owner, id) ELSE <<>>,
     stage |-> "new", paged |-> None, queue |-> <<>>]

\* Playlist.prototype.clone of a playlist object of the catalog:
\* this[prop] = response[prop] || this[prop], for every property but limit.
PlaylistClone(p, item) ==
    [p EXCEPT !.id = IF item.id # <<>> THEN item.id ELSE @,
              !.owner = IF item.owner # <<>> THEN item.owner ELSE @,
              !.uri = IF item.uri # <<>> THEN item.uri ELSE @]

\* Playlist.prototype.createQueue making each Track from the name of its
\* item.
PlaylistCreateQueueFromItems(p) ==
    LET items == p.items[1]
        tracks == [i \in 1..Len(items) |->
                     [Clone(NewTrack(items[i].name, <<>>, <<>>, <<>>, <<>>), items[i])
                        EXCEPT !.origin = i]]
    IN  IF p.limit # None /\ p.limit # Some(0) THEN Slice(tracks, 0, p.limit[1]) ELSE tracks

\* Playlist.prototype.createQueue: a Track per item, made from the playlist's
\* entry string, with the item's track cloned onto it; the queue is cut to
\* the limit when there is one.
PlaylistCreateQueue(p) ==
    LET items == p.items[1]
        tracks == [i \in 1..Len(items) |->
                     [Clone(NewTrack(p.entry, <<>>, <<>>, <<>>, <<>>), items[i])
                        EXCEPT !.origin = i]]
    IN  IF p.limit # None /\ p.limit # Some(0) THEN Slice(tracks, 0, p.limit[1]) ELSE tracks

\* Playlist.prototype.getPlaylist up to its first request: the listing is
\* asked for, whether or not the playlist has one.
PlaylistGetPlaylist(p) == [p EXCEPT !.stage = "getPlaylist", !.paged = None]

\* Playlist.prototype.dispatch up to its first request: a playlist whose id
\* and owner are known is not searched for.
DispatchPlaylist(p) ==
    IF p.id # <<>> /\ p.owner # <<>> THEN PlaylistGetPlaylist(p)
    ELSE [p EXCEPT !.stage = "searchPlaylists"]

\* The request in flight.
PlaylistRequest(p) ==
    IF p.stage = "searchPlaylists" THEN [op |-> "searchPlaylists", q |-> p.entry]
    ELSE [op |-> "getPlaylistTracks", q |-> [owner |-> p.owner, id |-> p.id],
          offset |-> PagingOffset(p.paged)]

\* The handlers with a paging that stops at the page that reaches the limit.
PlaylistReplyUpToLimit(p, response) ==
    IF p.stage = "searchPlaylists"
    THEN (IF response.ok /\ Len(response.items) > 0
          THEN PlaylistGetPlaylist(PlaylistClone(p, response.items[1]))
          ELSE [p EXCEPT !.stage = "rejected"])
    ELSE IF ~response.ok THEN [p EXCEPT !.stage = "rejected", !.paged = None]
    ELSE LET g == PagingThen(p.paged, response)
             got == [p EXCEPT !.items = Some(g.items), !.paged = None]
             enough == p.limit # None /\ p.limit # Some(0) /\ Len(g.items) >= p.limit[1]
         IN  IF g.more /\ ~enough THEN [p EXCEPT !.paged = Some(g.items)]
             ELSE [got EXCEPT !.stage = "resolved", !.queue = PlaylistCreateQueue(got)]

\* The handlers of Playlist.prototype.dispatch take the answer to the request
\* in flight: the first hit of the search is cloned, no hit or a failed
\* request rejects; the pages of the listing are collected and cloned, and
\* createQueue follows.
PlaylistReply(p, response) ==
    IF p.stage = "searchPlaylists"
    THEN (IF response.ok /\ Len(response.items) > 0
          THEN PlaylistGetPlaylist(PlaylistClone(p, response.items[1]))
          ELSE [p EXCEPT !.stage = "rejected"])
    ELSE IF ~response.ok THEN [p EXCEPT !.stage = "rejected", !.paged = None]
    ELSE LET g == PagingThen(p.paged, response)
             got == [p EXCEPT !.items = Some(g.items), !.paged = None]
         IN  IF g.more THEN [p EXCEPT !.paged = Some(g.items)]
             ELSE [got EXCEPT !.stage = "resolved", !.queue = PlaylistCreateQueue(got)]

\* What the catalog may answer to a playlist's request in flight.
PlaylistResponses(p, cat) ==
    IF p.stage = "searchPlaylists" THEN {Rejected, [ok |-> TRUE, items |-> cat.playlists]}
    ELSE {[ok |-> FALSE], PageOf(cat.listing, PagingOffset(p.paged))}

(***************************************************************************)
(* An entry dispatched on its own: an Album, an Artist, a Playlist or a    *)
(* Top entry is dispatched, the catalog answers its requests one by one,   *)
(* and once it has resolved it is dispatched a second time.  The entry is  *)
(* in trk, its requests in reqs, the queue it resolved with in entries     *)
(* (the queue of the first dispatch in sources during the second); hist    *)
(* holds, for every dispatch, the number of requests issued before it.     *)
(***************************************************************************)
\* entry.dispatch() up to its first request.
SingleDispatchOf(e) ==
    CASE e.kind = "album" -> DispatchAlbum(e)
      [] e.kind = "artist" -> DispatchArtist(e)
      [] e.kind = "playlist" -> DispatchPlaylist(e)
      [] OTHER -> DispatchTop(e)

\* The request in flight.
SingleRequest(e) ==
    CASE e.kind = "album" -> [op |-> "getAlbum", q |-> e.id]
      [] e.kind = "artist" -> ArtistRequest(e)
      [] e.kind = "playlist" -> PlaylistRequest(e)
      [] OTHER -> TopRequest(e)

\* The entry's handlers take the catalog's answer to the request in flight.
SingleReplyOf(e, response) ==
    CASE e.kind = "album" -> AlbumReply(e, response)
      [] e.kind = "artist" -> ArtistReply(e, response)
      [] e.kind = "playlist" -> PlaylistReply(e, response)
      [] OTHER -> TopReply(e, response)

\* What the catalog may answer to the request in flight.
SingleResponses(e, cat) ==
    CASE e.kind = "album" -> GetAlbumResponses(e.id, cat)
      [] e.kind = "artist" -> ArtistResponses(e, cat)
      [] e.kind = "playlist" -> PlaylistResponses(e, cat)
      [] OTHER -> TopResponses(e, cat)

\* The entry strings: an identifier-like word, a word with an annotation to
\* strip, and one of which nothing is left when simplified.
SingleEntryStrings == {<<" ", "a">>, <<"a", " ", "(", "b", ")">>, <<"!">>}

SingleLimits == {None, Some(1), Some(2)}

\* The artists a search may return: none, the artist, or the artist after
\* one that is less similar to the query.
ArtistItem(id, name, sim) == [id |-> id, name |-> name, sim |-> sim]

ArtistHits ==
    { <<>>,
      <<ArtistItem(<<"a">>, <<"A">>, 2)>>,
      <<ArtistItem(<<"b">>, <<"b">>, 1), ArtistItem(<<"a">>, <<"A">>, 2)>> }

\* The album objects of an artist's album list and the albums they stand
\* for: a single, an album, and a single more popular than the first.  The
\* first album has a track of the artist, a track of another artist, and a
\* track of an artist whose name contains the artist's.
AlbumListItem(id, name, type) ==
    [id |-> id, name |-> name, uri |-> AlbumURI(id), album_type |-> type, popularity |-> None]

AlbumList ==
    << AlbumListItem(<<"c">>, <<"c">>, "single"),
       AlbumListItem(<<"b", "1">>, <<"b">>, "album"),
       AlbumListItem(<<"1">>, <<"e">>, "single") >>

AlbumTracks ==
    << AlbumItem(CatalogTrack(<<"a", "1">>, <<"a">>, <<"a">>, <<>>, None, FALSE, 0)),
       AlbumItem(CatalogTrack(<<"b", "1">>, <<"b">>, <<"b">>, <<>>, None, FALSE, 0)),
       AlbumItem(CatalogTrack(<<"c", "1">>, <<"c">>, <<"b", " ", "a">>, <<>>, None, FALSE, 0)) >>

AlbumBodies ==
    [id \in {AlbumList[i].id : i \in 1..Len(AlbumList)} |->
        LET item == CHOOSE x \in Range(AlbumList) : x.id = id
        IN  [id |-> id, name |-> item.name, uri |-> item.uri,
             popularity |-> IF id = <<"c">> THEN Some(1) ELSE IF id = <<"1">> THEN Some(3) ELSE Some(2),
             items |-> IF id = <<"c">> THEN AlbumTracks ELSE SubSeq(AlbumTracks, 1, 1)]]

\* The listing of a playlist, and the playlists a search may return.
PlaylistListing ==
    << CatalogTrack(<<"a", "1">>, <<"a">>, <<"a">>, <<"c">>, Some(1), FALSE, 0),
       CatalogTrack(<<"b", "1">>, <<"b">>, <<"b">>, <<"c">>, Some(3), FALSE, 0),
       CatalogTrack(<<"c", "1">>, <<"c">>, <<"b">>, <<"e">>, Some(2), FALSE, 0) >>

PlaylistHits ==
    { <<>>,
      << [id |-> <<"1">>, owner |-> <<"a">>, uri |-> PlaylistURI(<<"a">>, <<"1">>)],
         [id |-> <<"c">>, owner |-> <<"b">>, uri |-> PlaylistURI(<<"b">>, <<"c">>)] >> }

Prefixes(s) == {SubSeq(s, 1, n) : n \in 0..Len(s)}

\* The catalogs: what a search for artists and for playlists returns, the
\* album list of an artist, the albums, the listing of a playlist, the top
\* tracks of the artists, and the tracks an album may hold.
SingleCatalogs ==
    [artists : ArtistHits, albums : Prefixes(AlbumList), album : {AlbumBodies},
     playlists : PlaylistHits, listing : Prefixes(PlaylistListing),
     top : {TopTracksOf}, ids : {{}}, tracks : {CatalogTracks}]

NoCatalogFor(kind) ==
    [artists |-> IF kind \in {"artist", "top"} THEN ArtistHits ELSE {<<>>},
     albums |-> IF kind = "artist" THEN Prefixes(AlbumList) ELSE {<<>>},
     playlists |-> IF kind = "playlist" THEN PlaylistHits ELSE {<<>>},
     listing |-> IF kind = "playlist" THEN Prefixes(PlaylistListing) ELSE {<<>>}]

\* The entries dispatched.
SingleEntries ==
    {NewAlbum(<<"c", " ">>, <<>>, <<>>, <<"c">>, limit) : limit \in SingleLimits}
    \cup {NewArtist(e, id, limit) :
            e \in SingleEntryStrings, id \in {<<>>, <<"a">>}, limit \in SingleLimits}
    \cup {NewPlaylist(<<"a", " ">>, owner, id, limit) :
            owner \in {<<>>, <<"b">>}, id \in {<<>>, <<"c">>}, limit \in SingleLimits}
    \cup {NewTop(e, id, limit) :
            e \in SingleEntryStrings, id \in {<<>>, <<"a">>, <<"c">>}, limit \in SingleLimits}

SingleInit ==
    /\ trk \in SingleEntries
    /\ catalog \in {c \in SingleCatalogs :
                      /\ c.artists \in NoCatalogFor(trk.kind).artists
                      /\ c.albums \in NoCatalogFor(trk.kind).albums
                      /\ c.playlists \in NoCatalogFor(trk.kind).playlists
                      /\ c.listing \in NoCatalogFor(trk.kind).listing}
    /\ reqs = <<>>
    /\ last = NoResponse
    /\ entries = <<>>
    /\ sources = <<>>
    /\ settled = <<>>
    /\ cpc = "new"
    /\ opts = NoOptions
    /\ hist = <<>>
    /\ ppc = NoStage
    /\ output = <<>>
    /\ arr = <<>>
    /\ fn = [kind |-> "none"]
    /\ sorted = [threw |-> FALSE, val |-> <<>>]
    /\ spc = "none"

\* Where the dispatch of the entry stands.
SinglePosition(e) == IF e.stage \in Settled THEN e.stage ELSE "dispatching"

\* The entry has gone from its handlers to its next request or has settled.
SingleStep(e) ==
    /\ trk' = e
    /\ reqs' = IF e.stage \in Settled THEN reqs ELSE Append(reqs, SingleRequest(e))
    /\ cpc' = SinglePosition(e)
    /\ entries' = IF e.stage = "resolved" THEN e.queue ELSE entries

\* entry.dispatch()
SingleDispatch ==
    /\ cpc = "new"
    /\ SingleStep(SingleDispatchOf(trk))
    /\ hist' = Append(hist, Len(reqs))
    /\ UNCHANGED <<last, catalog, sources, settled, sortVars, opts, ppc, output>>

\* The catalog answers the request in flight.
SingleCatalogReply ==
    /\ cpc = "dispatching"
    /\ \E response \in SingleResponses(trk, catalog) :
          /\ SingleStep(SingleReplyOf(trk, response))
          /\ last' = response
    /\ UNCHANGED <<catalog, sources, settled, sortVars, pipeVars>>

\* entry.dispatch() on the entry that has resolved.
SingleDispatchAgain ==
    /\ cpc = "resolved"
    /\ Len(hist) = 1
    /\ SingleStep(SingleDispatchOf(trk))
    /\ hist' = Append(hist, Len(reqs))
    /\ sources' = entries
    /\ UNCHANGED <<last, catalog, settled, sortVars, opts, ppc, output>>

SingleNext ==
    \/ SingleDispatch
    \/ SingleCatalogReply
    \/ SingleDispatchAgain

SpecSingle == SingleInit /\ [][SingleNext]_vars

(***************************************************************************)
(* The requests of one Track: it is dispatched, and its properties are     *)
(* asked for with getProperty, before or after.  A property that needs     *)
(* several requests is resolved in steps, "hist" holding the steps that    *)
(* remain and "cpc" the fetch in flight; a search runs the chain of        *)
(* searchTracks as a dispatch does.                                        *)
(***************************************************************************)
FetchProps == {"uri", "id", "name", "artist", "album", "popularity", "tempo", "lastfm"}

\* The steps of getProperty(prop): the audio features and the popularity
\* need the id first, getLastfm the artist and the name.
FetchSteps(t, prop) ==
    IF IsSet(t, prop) THEN <<>>
    ELSE CASE prop = "lastfm" -> <<"artist", "name", "getInfo">>
           [] prop = "tempo" -> <<"id", "getAudioFeaturesForTrack">>
           [] prop = "popularity" -> <<"id", "getTrack">>
           [] OTHER -> <<prop>>

\* One step up to its request: getTrack is not sent for a track whose
\* popularity is a number, getAudioFeaturesForTrack not for one whose tempo
\* is set.
FetchStep(t, step) ==
    CASE step = "getTrack" ->
           [request |-> IF t.popularity # None THEN "none" ELSE "getTrack", track |-> t]
      [] step = "getAudioFeaturesForTrack" ->
           [request |-> IF IsSet(t, "tempo") THEN "none" ELSE "getAudioFeaturesForTrack",
            track |-> t]
      [] step = "getInfo" -> [request |-> "getInfo", track |-> t]
      [] OTHER -> GetProperty(t, step)

\* The steps from the first on, up to the first that sends a request.
RECURSIVE FetchRun(_, _)
FetchRun(t, steps) ==
    IF Len(steps) = 0 THEN [request |-> "none", track |-> t, rest |-> <<>>]
    ELSE LET f == FetchStep(t, steps[1])
         IN  IF f.request = "none" THEN FetchRun(f.track, Tail(steps))
             ELSE [request |-> f.request, track |-> f.track, rest |-> Tail(steps)]

\* The clone of the body of getAudioFeaturesForTrack, which has an id and a
\* uri but neither name nor artists: the title is made again from the
\* track's main artist and name.
CloneFeatures(t, body) ==
    [t EXCEPT !.id = body.id, !.uri = body.uri, !.tempo = body.tempo,
              !.title = IF t.mainArtist # <<>> /\ t.name # <<>>
                        THEN t.mainArtist \o Dash \o t.name ELSE t.name]

\* The then of lastfm.getInfo in Track.prototype.getLastfm: the personal
\* play count when there is one, the global one otherwise.
GetLastfmThen(t, result) ==
    [t EXCEPT !.lastfm = IF result.userplaycount # None THEN result.userplaycount
                         ELSE result.playcount]

\* The handlers of the fetch in flight: a body is cloned onto the track, a
\* failed request rejects getProperty.
FetchThen(t, request, response) ==
    IF ~response.ok THEN [ok |-> FALSE, track |-> t]
    ELSE CASE request = "getTrack" -> GetTrackThen(t, response)
           [] request = "getAudioFeaturesForTrack" ->
                [ok |-> TRUE, track |-> CloneFeatures(t, response.items[1])]
           [] OTHER -> [ok |-> TRUE, track |-> GetLastfmThen(t, response.items[1])]

\* What the services may answer to a fetch: the catalog as to a getTrack,
\* the audio features of the track of that id, the play counts of Last.fm.
FetchResponses(t, request, cat) ==
    CASE request = "getTrack" -> GetTrackResponses(t.id, cat)
      [] request = "getAudioFeaturesForTrack" ->
           {Rejected,
            [ok |-> TRUE, items |-> <<[id |-> t.id, uri |-> TrackURI(t.id), tempo |-> Some(1)]>>]}
      [] OTHER ->
           {Rejected} \cup
           {[ok |-> TRUE, items |-> <<[playcount |-> Some(2), userplaycount |-> u]>>] :
               u \in {None, Some(1)}}

\* The steps have gone on: a fetch is in flight, or a search has started,
\* or the property is resolved.
FetchGoesOn(f) ==
    /\ cpc' = IF f.request = "searchTracks" THEN "none" ELSE f.request
    /\ hist' = f.rest
    /\ trk' = IF f.request # "searchTracks" THEN f.track
              ELSE IF f.track.artist # <<>> THEN EnterStage(f.track, "search")
              ELSE EnterStage(f.track, "plain")
    /\ reqs' = IF f.request = "searchTracks" THEN Append(reqs, Logged(trk')) ELSE reqs

\* track.getProperty(prop)
FetchGetProperty ==
    /\ trk.stage \in {"new", "resolved"}
    /\ cpc = "none"
    /\ hist = <<>>
    /\ \E prop \in FetchProps : FetchGoesOn(FetchRun(trk, FetchSteps(trk, prop)))
    /\ UNCHANGED <<last, catalog, sortVars, entries, sources, settled, opts, ppc, output>>

\* The search a step has waited for has found the track: the next steps.
FetchAfterSearch ==
    /\ trk.stage = "resolved"
    /\ cpc = "none"
    /\ hist # <<>>
    /\ FetchGoesOn(FetchRun(trk, hist))
    /\ UNCHANGED <<last, catalog, sortVars, entries, sources, settled, opts, ppc, output>>

\* The answer to the fetch in flight.
FetchReply ==
    /\ cpc \notin {"none", "searchTracks"}
    /\ \E response \in FetchResponses(trk, cpc, catalog) :
          LET r == FetchThen(trk, cpc, response)
          IN  /\ last' = [stage |-> cpc, resp |-> response]
              /\ IF r.ok THEN FetchGoesOn(FetchRun(r.track, hist))
                 ELSE trk' = trk /\ cpc' = "none" /\ hist' = <<>> /\ reqs' = reqs
    /\ UNCHANGED <<catalog, sortVars, entries, sources, settled, opts, ppc, output>>

FetchNext ==
    \/ TrackDispatch
    \/ TrackCatalogReply
    \/ FetchGetProperty
    \/ FetchAfterSearch
    \/ FetchReply

SpecFetch == TrackInit /\ [][FetchNext]_vars

(***************************************************************************)
(* One request of the catalog client: a method of SpotifyWebApi builds the *)
(* URI and calls request(), which gets a token, calls http() and, in its   *)
(* catch handler, calls this.refreshToken(); then the method tests the     *)
(* response.                                                               *)
(***************************************************************************)

\* The methods of SpotifyWebApi that call this.request(uri).
ApiMethods ==
    {"getAlbum", "getArtistAlbums", "getArtistRelatedArtists", "getPlaylistTracks",
     "getArtistTopTracks", "getTrack", "getAudioFeaturesForTrack", "searchArtists",
     "searchAlbums", "searchPlaylists", "searchTracks"}

\* The member of the response a method looks for, and whether it has to
\* hold a first item (response?.tracks?.items?.[0]).
ResponseField(op) ==
    CASE op \in {"getAlbum", "getAudioFeaturesForTrack"} -> "id"
      [] op \in {"getArtistAlbums", "getPlaylistTracks"} -> "items"
      [] op \in {"getArtistRelatedArtists", "searchArtists"} -> "artists"
      [] op \in {"getArtistTopTracks", "searchTracks"} -> "tracks"
      [] op = "getTrack" -> "uri"
      [] op = "searchAlbums" -> "albums"
      [] op = "searchPlaylists" -> "playlists"

NeedsFirstItem(op) == op \in {"searchArtists", "searchAlbums", "searchPlaylists", "searchTracks"}

\* The test in the then() of a method: the response is wrapped as a body
\* when it has the member, otherwise the method rejects with the response.
MethodAccepts(op, body) ==
    /\ ResponseField(op) \in body.has
    /\ NeedsFirstItem(op) => body.count > 0

\* The bodies the catalog may answer a method with: the member with a first
\* item, the member without items, or an object without the member.
Bodies(op) ==
    {[has |-> {ResponseField(op)}, count |-> 1], [has |-> {ResponseField(op)}, count |-> 0],
     [has |-> {}, count |-> 0]}

\* The ways one http.get settles: resolved with the parsed body, or rejected
\* with the status of a response that is not ok (unauthorized, not found),
\* with a parsed body that has an error member, or with a transport error
\* whose message may or may not read "XHR error".
HttpOutcomes(op) ==
    {[kind |-> "body", body |-> b, status |-> 200] : b \in Bodies(op)}
    \cup {[kind |-> "status", body |-> [has |-> {}, count |-> 0], status |-> s] : s \in {401, 404}}
    \cup {[kind |-> k, body |-> [has |-> {"error"}, count |-> 0], status |-> 0] :
             k \in {"errorBody", "XHR error", "transport"}}

\* uri.replace(/^https:/i, "http:") and the reverse.
OtherScheme(scheme) == IF scheme = "https" THEN "http" ELSE "https"

NewRequest(op) ==
    [kind |-> "request", op |-> op, stage |-> "getToken", scheme |-> "https",
     authorization |-> None, refreshes |-> 0, caught |-> FALSE, settledWith |-> "none"]

\* One line of the log of HTTP attempts.
Attempt(r, outcome) ==
    [op |-> r.op, scheme |-> r.scheme, authorization |-> r.authorization,
     afterRefresh |-> r.caught, outcome |-> outcome.kind, status |-> outcome.status,
     found |-> outcome.kind = "body" /\ MethodAccepts(r.op, outcome.body)]

RequestInit ==
    /\ trk \in {NewRequest(op) : op \in ApiMethods}
    /\ reqs = <<>>
    /\ last = NoResponse
    /\ catalog = NoCatalog
    /\ arr = <<>>
    /\ fn = [kind |-> "none"]
    /\ sorted = [threw |-> FALSE, val |-> <<>>]
    /\ spc = "none"
    /\ entries = <<>>
    /\ sources = <<>>
    /\ settled = <<>>
    /\ cpc = "none"
    /\ opts = NoOptions
    /\ hist = <<>>
    /\ ppc = NoStage
    /\ output = <<>>

\* this.auth.getToken(): resolved with the token, which is put into the
\* Authorization header before http() is called, or rejected, which goes to
\* the catch handler of request().
RequestGetToken ==
    /\ trk.kind = "request"
    /\ trk.stage = "getToken"
    /\ \E got \in BOOLEAN :
          trk' = IF got THEN [trk EXCEPT !.stage = "http", !.authorization = Some(0)]
                 ELSE [trk EXCEPT !.stage = "catch"]
    /\ UNCHANGED <<reqs, last, catalog, collVars, pipeVars, sortVars>>

\* A failed http() where it is called: inside the catch handler it rejects
\* request(), before it it goes to the catch handler.
HttpFailed(r) ==
    IF r.caught THEN [r EXCEPT !.stage = "rejected", !.settledWith = "http"]
    ELSE [r EXCEPT !.stage = "catch"]

\* this.http(uri, options): one http.get. A response goes to the then() of
\* the method; an error whose message reads "XHR error" is answered with
\* a second http.get under the other scheme; every other failure is thrown
\* again.
HttpGet ==
    /\ trk.kind = "request"
    /\ trk.stage = "http"
    /\ \E outcome \in HttpOutcomes(trk.op) :
          /\ reqs' = Append(reqs, Attempt(trk, outcome))
          /\ last' = outcome
          /\ trk' = CASE outcome.kind = "body" -> [trk EXCEPT !.stage = "then"]
                      [] outcome.kind = "XHR error" ->
                            [trk EXCEPT !.stage = "fallback", !.scheme = OtherScheme(trk.scheme)]
                      [] OTHER -> HttpFailed(trk)
    /\ UNCHANGED <<catalog, collVars, pipeVars, sortVars>>

\* The http.get under the other scheme: its outcome is the outcome of http().
HttpFallback ==
    /\ trk.kind = "request"
    /\ trk.stage = "fallback"
    /\ \E outcome \in HttpOutcomes(trk.op) :
          /\ reqs' = Append(reqs, Attempt(trk, outcome))
          /\ last' = outcome
          /\ trk' = IF outcome.kind = "body" THEN [trk EXCEPT !.stage = "then"]
                    ELSE HttpFailed(trk)
    /\ UNCHANGED <<catalog, collVars, pipeVars, sortVars>>

\* The catch handler of request() with a refreshToken method that resolves
\* with a new token or rejects: the new token is put into the Authorization
\* header and http() is called again.
RequestCatchRefreshing ==
    /\ trk.kind = "request"
    /\ trk.stage = "catch"
    /\ \E got \in BOOLEAN :
          trk' = IF got /\ trk.authorization # None
                 THEN [trk EXCEPT !.stage = "http", !.caught = TRUE, !.refreshes = @ + 1,
                                  !.authorization = Some(trk.authorization[1] + 1)]
                 ELSE [trk EXCEPT !.stage = "rejected", !.caught = TRUE,
                                  !.settledWith = IF got THEN "TypeError" ELSE "refresh"]
    /\ UNCHANGED <<reqs, last, catalog, collVars, pipeVars, sortVars>>

\* .catch((status) => this.refreshToken().then(...)): SpotifyWebApi has no
\* refreshToken method (its methods are the ApiMethods and request), so
\* the call throws a TypeError inside the handler and request() rejects with
\* it: no token is refreshed and http() is not called again.
RequestCatch ==
    /\ trk.kind = "request"
    /\ trk.stage = "catch"
    /\ trk' = [trk EXCEPT !.stage = "rejected", !.caught = TRUE, !.settledWith = "TypeError"]
    /\ UNCHANGED <<reqs, last, catalog, collVars, pipeVars, sortVars>>

\* this.request(uri).then((response) => ...) of the method: resolved with
\* {body: response} when the response has what the method looks for,
\* otherwise rejected with the response.
MethodThen ==
    /\ trk.kind = "request"
    /\ trk.stage = "then"
    /\ trk' = IF MethodAccepts(trk.op, last.body)
              THEN [trk EXCEPT !.stage = "resolved", !.settledWith = "body"]
              ELSE [trk EXCEPT !.stage = "rejected", !.settledWith = "response"]
    /\ UNCHANGED <<reqs, last, catalog, collVars, pipeVars, sortVars>>

RequestNext ==
    \/ RequestGetToken
    \/ HttpGet
    \/ HttpFallback
    \/ RequestCatch
    \/ MethodThen

SpecRequest == RequestInit /\ [][RequestNext]_vars

(***************************************************************************)
(* util.paging on its own: the method is called, and every answer is       *)
(* handled by the then of util.paging, which calls the method again while  *)
(* the page has a next one.  The catalog returns any page, with or without *)
(* a cursor, up to MaxPages pages, the last of which has no cursor.  The   *)
(* pages received are kept in hist.                                        *)
(***************************************************************************)
PagingItems == {"x", "y"}

\* What the method may settle with for the page asked for: rejected,
\* resolved with no response, or resolved with a page of items that has a
\* cursor to the next page or not.
PagingResponses(received) ==
    {[ok |-> FALSE, body |-> FALSE, items |-> <<>>, next |-> FALSE],
     [ok |-> TRUE, body |-> FALSE, items |-> <<>>, next |-> FALSE]}
    \cup {[ok |-> TRUE, body |-> TRUE, items |-> s, next |-> n] :
             s \in SeqsUpTo(PagingItems, PageSize),
             n \in IF received + 1 < MaxPages THEN BOOLEAN ELSE {FALSE}}

\* The request util.paging makes: method.apply(spotify, args.concat([options]))
PagingRequest(paged) == [op |-> "method", offset |-> PagingOffset(paged)]

PagingInit ==
    /\ trk = [kind |-> "paging", stage |-> "new", paged |-> None, value |-> None]
    /\ reqs = <<>>
    /\ last = NoResponse
    /\ hist = <<>>
    /\ catalog = NoCatalog
    /\ arr = <<>>
    /\ fn = [kind |-> "none"]
    /\ sorted = [threw |-> FALSE, val |-> <<>>]
    /\ spc = "none"
    /\ entries = <<>>
    /\ sources = <<>>
    /\ settled = <<>>
    /\ cpc = "none"
    /\ opts = NoOptions
    /\ ppc = NoStage
    /\ output = <<>>

\* util.paging(spotify, method, args): the first call of the method.
PagingCall ==
    /\ trk.kind = "paging"
    /\ trk.stage = "new"
    /\ reqs' = Append(reqs, PagingRequest(trk.paged))
    /\ trk' = [trk EXCEPT !.stage = "waiting"]
    /\ UNCHANGED <<last, hist, catalog, entries, sources, settled, cpc, opts, ppc, output, sortVars>>

\* The method settles: a rejection rejects util.paging, and so does no
\* response; the items of a page are added to those received, and the
\* method is called again from there when the page has a cursor, otherwise
\* util.paging resolves with all the items.
PagingReply ==
    /\ trk.kind = "paging"
    /\ trk.stage = "waiting"
    /\ \E response \in PagingResponses(Len(hist)) :
          /\ last' = response
          /\ IF ~response.ok \/ ~response.body
             THEN /\ trk' = [trk EXCEPT !.stage = "rejected"]
                  /\ UNCHANGED <<reqs, hist>>
             ELSE LET p == PagingThen(trk.paged, response)
                  IN  /\ hist' = Append(hist, response.items)
                      /\ IF p.more
                         THEN /\ trk' = [trk EXCEPT !.paged = Some(p.items)]
                              /\ reqs' = Append(reqs, PagingRequest(Some(p.items)))
                         ELSE /\ trk' = [trk EXCEPT !.stage = "resolved", !.paged = Some(p.items),
                                                    !.value = Some(p.items)]
                              /\ reqs' = reqs
    /\ UNCHANGED <<catalog, entries, sources, settled, cpc, opts, ppc, output, sortVars>>

PagingNext == PagingCall \/ PagingReply

SpecPaging == PagingInit /\ [][PagingNext]_vars

\* Every call of the method settles.
SpecPagingFair == SpecPaging /\ WF_vars(PagingNext)

(***************************************************************************)
(* Properties of the sort library.                                         *)
(***************************************************************************)

\* What a combination of comparison functions is documented to return: the
\* value of the first part that is not 0, and 0 when every part gives 0.
RECURSIVE FirstNonZero(_, _, _)
FirstNonZero(parts, a, b) ==
    IF Len(parts) = 0 THEN 0
    ELSE LET v == Call(parts[1], a, b).val
         IN  IF v # 0 THEN v ELSE FirstNonZero(Tail(parts), a, b)

\* p is a permutation of 1..n
IsIndexPermutation(p, n) == \A i, j \in 1..n : i # j => p[i] # p[j]

\* C9: sort(arr, cmp) returns a permutation of its input that is ordered by
\* cmp and in which elements that compare equal keep their input order; an
\* empty or singleton array is returned unchanged (whatever the comparison
\* function is, since it is never called).
StableSort ==
    spc = "done" =>
        /\ Len(arr) <= 1 => sorted = [threw |-> FALSE, val |-> arr]
        /\ fn.kind = "simple" =>
              /\ ~sorted.threw
              /\ Len(sorted.val) = Len(arr)
              /\ \E p \in [1..Len(arr) -> 1..Len(arr)] :
                    /\ IsIndexPermutation(p, Len(arr))
                    /\ \A k \in 1..Len(arr) : sorted.val[k] = arr[p[k]]
                    /\ \A k, l \in 1..Len(arr) :
                          k < l =>
                             LET c == Call(fn.f, sorted.val[k], sorted.val[l]).val
                             IN  /\ c <= 0
                                 /\ c = 0 => p[k] < p[l]

\* C9 witness: a sort that had to reorder its input and that had elements
\* comparing equal to keep in order.
StableSortWitness ==
    /\ spc = "done"
    /\ fn.kind = "simple"
    /\ Len(arr) = 3
    /\ sorted.val # arr
    /\ \E i, j \in 1..3 : i < j /\ arr[i] # arr[j] /\ Call(fn.f, arr[i], arr[j]).val = 0

\* C10: a combined comparison function returns, for every pair, the value of
\* the first of its parts that is not 0, and 0 only when every part gives 0;
\* sort.album, sort.lastfm and sort.track are such combinations of their parts.
CombineFirstNonZero ==
    fn.kind = "combined" =>
        \A a, b \in Range(arr) :
            Call(fn.f, a, b) = [threw |-> FALSE, val |-> FirstNonZero(fn.parts, a, b)]

(***************************************************************************)
(* Properties of the Track entry.                                          *)
(***************************************************************************)
SearchRequest(track, artist, album) ==
    [op |-> "searchTracks", q |-> SearchQueryText(track, artist, album)]

\* The plain query of a track, from the constructor's arguments.
GivenQuery(t) ==
    IF t.given.artist # <<>>
    THEN t.given.artist \o Dash \o t.given.name
         \o (IF t.given.album # <<>> THEN Dash \o t.given.album ELSE <<>>)
    ELSE t.entry

\* The whole fallback chain of a track without identifier, from the
\* constructor's arguments: the structured search and its swap, both again
\* without the album when there is one, the plain query, its simplified form
\* when that is not empty and differs, the query as an identifier when it
\* looks like one.
FullChain(t) ==
    LET g == t.given
        q == GivenQuery(t)
        simple == ToAscii(StripNoise(q))
    IN  (IF g.artist # <<>>
         THEN <<SearchRequest(g.name, g.artist, g.album), SearchRequest(g.artist, g.name, g.album)>>
              \o (IF g.album # <<>>
                  THEN <<SearchRequest(g.name, g.artist, <<>>), SearchRequest(g.artist, g.name, <<>>)>>
                  ELSE <<>>)
         ELSE <<>>)
        \o <<SearchRequest(q, <<>>, <<>>)>>
        \o (IF simple # <<>> /\ simple # q THEN <<SearchRequest(simple, <<>>, <<>>)>> ELSE <<>>)
        \o (IF IsIdentifier(q) THEN <<[op |-> "getTrack", q |-> q]>> ELSE <<>>)

\* The chain as the six stages of the specification list them.
SixStageChain(t) ==
    LET g == t.given
        q == GivenQuery(t)
    IN  << SearchRequest(g.name, g.artist, g.album),
           SearchRequest(g.artist, g.name, g.album),
           SearchRequest(g.name, g.artist, <<>>),
           SearchRequest(q, <<>>, <<>>),
           SearchRequest(ToAscii(StripNoise(q)), <<>>, <<>>),
           [op |-> "getTrack", q |-> q] >>

IsPrefixOfRequests(log, chain) ==
    /\ Len(log) <= Len(chain)
    /\ \A i \in 1..Len(log) : log[i].req = chain[i]

HasArtistTitleAlbum(t) ==
    t.given.id = <<>> /\ t.given.artist # <<>> /\ t.given.name # <<>> /\ t.given.album # <<>>

\* C3 as stated: the attempts of a track with artist, title and album are,
\* in this order, the structured search, its swap, the search without album,
\* the plain query, the simplified query, the fetch by identifier.
SixStageOrder ==
    HasArtistTitleAlbum(trk) => IsPrefixOfRequests(reqs, SixStageChain(trk))

\* C3 amended: the attempts of a track with artist, title and album are, in
\* this order, the structured search, its swap, the search without album,
\* the swap without album, the plain query and (when it is not empty and
\* differs from the plain query) the simplified query; each one is issued
\* only after the one before it failed, nothing follows a success, and no
\* fetch by identifier is made.
FallbackChainOrder ==
    HasArtistTitleAlbum(trk) =>
        /\ IsPrefixOfRequests(reqs, FullChain(trk))
        /\ \A i \in 1..Len(reqs) :
              /\ i < Len(reqs) => reqs[i].result = "failed"
              /\ reqs[i].result = "succeeded" => trk.stage = "resolved"
              /\ reqs[i].result = "pending" => trk.stage \in InFlight
              /\ reqs[i].req.op = "searchTracks"

\* C3 witness: a track with artist, title and album whose six attempts were
\* all made.
FallbackChainOrderWitness ==
    HasArtistTitleAlbum(trk) /\ Len(reqs) = 6 /\ trk.stage = "resolved"

\* C4: when the structured search of a track with artist and title fails and
\* the catalog answers the swapped search with candidates, the first
\* candidate is cloned onto the track, the dispatch resolves and no further
\* attempt is made.
SwapStageSucceeds ==
    (last.stage = "swap" /\ last.resp.ok /\ Len(last.resp.items) > 0) =>
        /\ trk.given.artist # <<>> /\ trk.given.name # <<>>
        /\ Len(reqs) = 2
        /\ reqs[1].req = SearchRequest(trk.given.name, trk.given.artist, trk.given.album)
        /\ reqs[1].result = "failed"
        /\ reqs[2].req = SearchRequest(trk.given.artist, trk.given.name, trk.given.album)
        /\ reqs[2].result = "succeeded"
        /\ trk.stage = "resolved"
        /\ trk.uri = last.resp.items[1].uri
        /\ trk.uri # <<>>

\* C4 witness: the swapped search returned several candidates and the track
\* is resolved.
SwapStageSucceedsWitness ==
    /\ last.stage = "swap" /\ last.resp.ok /\ Len(last.resp.items) = 2
    /\ trk.stage = "resolved"
    /\ reqs[1].result = "failed"

\* C5: a dispatch ends rejected only after every attempt of the chain was
\* made and failed, and the track's URI is then still unset; the outcome of
\* a dispatch is a resolution or a rejection.
TotalMissIsNotFound ==
    /\ trk.stage \in {"new", "resolved", "rejected"} \cup InFlight
    /\ trk.stage = "rejected" =>
          /\ trk.uri = <<>>
          /\ Len(reqs) = Len(FullChain(trk))
          /\ \A i \in 1..Len(reqs) :
                reqs[i].req = FullChain(trk)[i] /\ reqs[i].result = "failed"

\* C5 witness: the six attempts of a track with artist, title and album all
\* failed.
TotalMissIsNotFoundWitness ==
    trk.stage = "rejected" /\ Len(reqs) = 6

\* C6 as stated: a track whose identifier is known is fetched by identifier
\* before it is reported resolved.
KnownIdIsFetched ==
    (trk.given.id # <<>> /\ trk.stage = "resolved") =>
        \E i \in 1..Len(reqs) : reqs[i].req.op = "getTrack"

\* C6 amended: dispatching a track whose identifier is known issues no
\* catalog request at all, neither a fetch nor a search: the track resolves
\* with the URI spotify:track:<id>.
KnownIdNoRequest ==
    (trk.given.id # <<>> /\ trk.stage # "new") =>
        /\ trk.stage = "resolved"
        /\ \A i \in 1..Len(reqs) : reqs[i].phase # "dispatch"
        /\ trk.uri = TrackURI(trk.given.id)

\* C6 witness: a track with a known identifier has been dispatched.
KnownIdNoRequestWitness ==
    trk.given.id # <<>> /\ trk.stage = "resolved"

\* Collection.forEachTrack renders a track that has a URI; a queue holds the
\* track only when its dispatch resolved.
InOutput(t) == t.stage = "resolved" /\ t.uri # <<>>

\* C7 as stated: a track whose identifier the catalog rejects is not found
\* and not rendered, whether the identifier was given up front or is the raw
\* string tried at the end of the chain.
MalformedIdIsNotFound ==
    /\ (trk.given.id # <<>> /\ trk.given.id \notin catalog.ids /\ trk.stage # "new") => ~InOutput(trk)
    /\ (last.stage = "ident" /\ ~last.resp.ok) => ~InOutput(trk)

\* C7 amended: when the raw string is tried as an identifier at the end of
\* the chain and the catalog rejects it, the dispatch is rejected, the URI
\* stays unset and the track is not rendered; an identifier given up front
\* is not checked by the dispatch, which resolves with the URI
\* spotify:track:<id> even when the catalog does not know the identifier.
MalformedIdAtEndOfChain ==
    /\ (last.stage = "ident" /\ ~last.resp.ok) =>
          trk.stage = "rejected" /\ trk.uri = <<>> /\ ~InOutput(trk)
    /\ (trk.given.id # <<>> /\ trk.given.id \notin catalog.ids /\ trk.stage # "new") =>
          InOutput(trk) /\ trk.uri = TrackURI(trk.given.id)

\* C7 witness: the catalog does not know the raw string tried as an
\* identifier, and the dispatch is rejected.
MalformedIdAtEndOfChainWitness ==
    /\ last.stage = "ident" /\ ~last.resp.ok
    /\ trk.entry \notin catalog.ids
    /\ trk.stage = "rejected"

\* The greatest candidate under the composite order: similarity, then
\* popularity, then explicit, then the catalog's order.
BestIndex(items) ==
    CHOOSE i \in 1..Len(items) :
        \A j \in 1..Len(items) :
            j # i => LET v == FirstNonZero(SortTrackParts, items[i], items[j])
                     IN  v < 0 \/ (v = 0 /\ i < j)

\* C8: when a search without an artist returns several candidates, the
\* greatest one under the composite order is cloned onto the track.
BestMatchSelected ==
    (last.stage \in {"plain", "simple"} /\ last.resp.ok /\ Len(last.resp.items) >= 2) =>
        /\ trk.stage = "resolved"
        /\ trk.uri = last.resp.items[BestIndex(last.resp.items)].uri

(***************************************************************************)
(* Properties of the collection.                                           *)
(***************************************************************************)
\* The tracks a settled entry contributes.
TracksOf(e) ==
    IF e.stage # "resolved" THEN <<>>
    ELSE IF e.kind = "album" THEN e.queue
    ELSE <<e>>

\* The tracks of the entries at positions i..Len(q), entry by entry.
RECURSIVE TracksFrom(_, _)
TracksFrom(q, i) == IF i > Len(q) THEN <<>> ELSE TracksOf(q[i]) \o TracksFrom(q, i + 1)

\* Two entries settled in the reverse of their order in the queue.
SettledOutOfOrder(i, j) ==
    \E k, l \in 1..Len(settled) : k < l /\ settled[k] = j /\ settled[l] = i

\* C1: whatever the order in which the entries settle, the queue that
\* getTracks leaves holds tracks only, every one from an entry that resolved,
\* and the tracks of an earlier entry all come before those of a later entry.
OrderPreservedUnderDispatch ==
    cpc = "done" =>
        /\ \A k \in 1..Len(entries) :
              /\ entries[k].kind = "track"
              /\ entries[k].origin \in 1..Len(sources)
              /\ sources[entries[k].origin].stage = "resolved"
        /\ \A k, l \in 1..Len(entries) :
              k < l => entries[k].origin <= entries[l].origin

\* Two entries that both contribute tracks, the later of which settled first.
OrderPreservedUnderDispatchWitness ==
    /\ cpc = "done"
    /\ \E i, j \in 1..Len(sources) :
          /\ i < j
          /\ SettledOutOfOrder(i, j)
          /\ \E k, l \in 1..Len(entries) : entries[k].origin = i /\ entries[l].origin = j

\* C2: when some entries are rejected, getTracks still completes, and its
\* queue is exactly the tracks of the entries that resolved, in the order of
\* those entries; each of them is a track that was found.
PartialFailureTolerated ==
    cpc = "done" =>
        /\ entries = TracksFrom(sources, 1)
        /\ \A k \in 1..Len(entries) : entries[k].kind = "track" /\ entries[k].uri # <<>>
        /\ \A i \in 1..Len(sources) :
              sources[i].stage = "rejected" =>
                  \A k \in 1..Len(entries) : entries[k].origin # i

\* A rejected entry between two entries that resolved with tracks.
PartialFailureToleratedWitness ==
    /\ cpc = "done"
    /\ \E i, j, m \in 1..Len(sources) :
          /\ i < j /\ j < m
          /\ sources[j].stage = "rejected"
          /\ \E k, l \in 1..Len(entries) :
                k < l /\ entries[k].origin = i /\ entries[l].origin = m

(***************************************************************************)
(* Properties of the collection's pipeline.                                *)
(***************************************************************************)
PipelineStages == <<"getTracks", "dedup", "order", "group", "alternate", "reorder", "output">>

\* Every stage started and ended once, in the order of the pipeline.
FullRun ==
    [k \in 1..(2 * Len(PipelineStages)) |->
        Event(PipelineStages[(k + 1) \div 2], IF k % 2 = 1 THEN "start" ELSE "end")]

\* The stages started and ended so far, getTracks included.
StagesRun ==
    (IF cpc = "new" THEN <<>>
     ELSE IF cpc = "dispatching" THEN <<Event("getTracks", "start")>>
     ELSE <<Event("getTracks", "start"), Event("getTracks", "end")>>) \o hist

IsPrefix(s, t) == Len(s) <= Len(t) /\ \A k \in 1..Len(s) : s[k] = t[k]

\* C11: the stages of execute run in the order getTracks, dedup, order,
\* group, alternate, reorder, output, each started only when the one before
\* it has ended and none twice; a stage that is rejected is the last to
\* run; output runs only after all the others have ended and renders the
\* queue they left.
PipelineStageOrder ==
    /\ \/ IsPrefix(StagesRun, FullRun)
       \/ /\ ppc.next = "rejected"
          /\ Len(StagesRun) >= 2
          /\ IsPrefix(SubSeq(StagesRun, 1, Len(StagesRun) - 1), FullRun)
          /\ StagesRun[Len(StagesRun) - 1].ev = "start"
          /\ StagesRun[Len(StagesRun)] = Event(StagesRun[Len(StagesRun) - 1].stage, "rejected")
    /\ ppc.next = "done" => StagesRun = FullRun /\ output = ToURIs(entries)
    /\ ppc.next # "done" => output = <<>>

\* A run with every stage enabled, at least one property fetched from the
\* catalog, and two tracks rendered.
PipelineStageOrderWitness ==
    /\ ppc.next = "done"
    /\ opts.unique /\ opts.ordering # "" /\ opts.grouping # "" /\ opts.alternating # ""
    /\ opts.reverse
    /\ reqs # <<>>
    /\ Len(entries) >= 2
    /\ output # <<>>

\* The stage's option is unset.
Unset(stage) ==
    CASE stage = "dedup" -> ~opts.unique
      [] stage = "order" -> opts.ordering = ""
      [] stage = "group" -> opts.grouping = ""
      [] stage = "alternate" -> opts.alternating = ""
      [] stage = "reorder" -> ~opts.reverse /\ ~opts.shuffle
      [] OTHER -> FALSE

\* C12: a stage whose option is unset leaves the queue as it is, issues no
\* request and waits for none.
UnsetStagePassThrough ==
    [][(cpc = "done" /\ Unset(ppc.next) /\ ppc' # ppc) =>
          (entries' = entries /\ reqs' = reqs /\ ppc'.wait = 0 /\ ppc'.next # "rejected")]_vars

\* A run with no option set has passed a queue of three tracks, two of them
\* the same, through every stage, without a request.
UnsetStagePassThroughWitness ==
    /\ ppc.next = "done"
    /\ \A s \in {"dedup", "order", "group", "alternate", "reorder"} : Unset(s)
    /\ Len(entries) = 3
    /\ entries[1].uri = entries[3].uri
    /\ entries[1].uri # entries[2].uri
    /\ reqs = <<>>

\* The order stage has just ended.
OrderJustEnded == Len(hist) > 0 /\ hist[Len(hist)] = Event("order", "end")

\* The position the track of an origin had in the queue when the stage started.
PositionBefore(o) == CHOOSE i \in 1..Len(ppc.before) : ppc.before[i] = o

\* C13: when the order stage ends with ordering set to a property, the
\* property is set on every track, the queue is ascending in it when it is a
\* string and descending when it is a number, and tracks that have the same
\* value are in the order they were in before.
OrderedByProperty ==
    (OrderJustEnded /\ opts.ordering # "") =>
        /\ \A k \in 1..Len(entries) : IsSet(entries[k], opts.ordering)
        /\ \A k, l \in 1..Len(entries) :
              k < l =>
                 LET x == Prop(entries[k], opts.ordering)
                     y == Prop(entries[l], opts.ordering)
                 IN  /\ opts.ordering = "popularity" => x[1] >= y[1]
                     /\ opts.ordering = "name" => ~StrLess(y, x)
                     /\ x = y => PositionBefore(entries[k].origin) < PositionBefore(entries[l].origin)

\* Three tracks ordered by popularity, two of them equally popular and the
\* more popular one moved in front of a track that was before it.
OrderedByPropertyWitness ==
    /\ OrderJustEnded
    /\ opts.ordering = "popularity"
    /\ Len(entries) = 3
    /\ entries[1].popularity # entries[2].popularity
    /\ entries[2].popularity = entries[3].popularity
    /\ PositionBefore(entries[1].origin) > PositionBefore(entries[2].origin)

(***************************************************************************)
(* Properties of the queue.                                                *)
(***************************************************************************)
\* The title as the dedup rule normalizes it: transliterated, without
\* punctuation, whitespace collapsed, in lower case.
NormalizedTitle(t) == ToLower(StripWhitespace(StripPunctuation(ToAscii(t.title), {})))

SameURI(a, b) == a.uri # <<>> /\ a.uri = b.uri

SameTitle(a, b) ==
    /\ a.title # <<>>
    /\ b.title # <<>>
    /\ \/ a.title = b.title
       \/ NormalizedTitle(a) # <<>> /\ NormalizedTitle(a) = NormalizedTitle(b)

\* The queue is the sources without those at the positions dropped, in order.
IsSourcesWithout(dropped) ==
    entries = SelectSeq(sources, LAMBDA t : t.origin \notin dropped)

\* The positions of the sources that are not in the queue.
Dropped == {j \in 1..Len(sources) : \A k \in 1..Len(entries) : entries[k].origin # j}

\* Duplicates by the rule that counts the titles only when the two tracks do
\* not both have a URI.
DuplicateByURIFirst(a, b) ==
    \/ SameURI(a, b)
    \/ (a.uri = <<>> \/ b.uri = <<>>) /\ SameTitle(a, b)

\* The stated rule: dedup drops the tracks that are duplicates by that rule
\* of a track kept before them, so that two tracks with different URIs are
\* both kept.
DedupByURIFirst ==
    cpc = "dedup" =>
        /\ IsSourcesWithout(Dropped)
        /\ \A j \in 1..Len(sources) :
              j \in Dropped <=>
                  \E i \in 1..(j - 1) :
                      i \notin Dropped /\ DuplicateByURIFirst(sources[i], sources[j])

\* C14: two tracks are duplicates when they have the same URI or when they
\* have the same title, as written or normalized, whatever their URIs;
\* dedup keeps the tracks that are not a duplicate of a track kept before
\* them, in the order they were in.
DedupRule ==
    /\ IsFlat(entries) =>
          \A i, j \in 1..Len(entries) :
              SimilarTo(entries[i], entries[j]) <=>
                  (SameURI(entries[i], entries[j]) \/ SameTitle(entries[i], entries[j]))
    /\ cpc = "dedup" =>
          /\ IsSourcesWithout(Dropped)
          /\ \A j \in 1..Len(sources) :
                j \in Dropped <=>
                    \E i \in 1..(j - 1) :
                        /\ i \notin Dropped
                        /\ SameURI(sources[i], sources[j]) \/ SameTitle(sources[i], sources[j])

\* Two tracks with different URIs and the same title: the second is dropped
\* and a third track that is no duplicate is kept after the first.
DedupRuleWitness ==
    /\ cpc = "dedup"
    /\ Len(sources) = 3
    /\ sources[1].uri # <<>> /\ sources[2].uri # <<>>
    /\ sources[1].uri # sources[2].uri
    /\ sources[1].title = sources[2].title
    /\ Dropped = {2}

\* C15: dedup applied to the queue dedup left gives that queue again, the
\* same tracks in the same order.
DedupIdempotent == cpc = "dedup again" => entries = sources

\* The first dedup dropped the second of three tracks, the second dedup
\* was applied to the two that were left.
DedupIdempotentWitness ==
    /\ cpc = "dedup again"
    /\ Len(entries) = 2
    /\ entries[1].origin = 1
    /\ entries[2].origin = 3

\* The stage has just ended.
JustEnded(stage) == Len(hist) > 0 /\ hist[Len(hist)] = Event(stage, "end")

\* The queue holds the tracks the stage started with, each once.
SameTracksAsBefore ==
    /\ Len(entries) = Len(ppc.before)
    /\ \A i \in 1..Len(ppc.before) : \E k \in 1..Len(entries) : entries[k].origin = ppc.before[i]

\* The key of the entry at position k: its property as a string in lower case.
LowerKey(k, prop) == ToLower(Prop(entries[k], prop))

\* The entries at k and l are in the order they were in when the stage started.
InPriorOrder(k, l) == PositionBefore(entries[k].origin) < PositionBefore(entries[l].origin)

\* The position the first entry with the key of entry k had when the stage started.
FirstBefore(k, prop) ==
    LET same == {PositionBefore(entries[m].origin) :
                    m \in {n \in 1..Len(entries) : LowerKey(n, prop) = LowerKey(k, prop)}}
    IN  CHOOSE i \in same : \A j \in same : i <= j

\* C16: when the group stage ends with grouping set to a property, the
\* property is set on every track and the queue holds the same tracks with
\* those of the same lower-cased key next to each other, the groups in the
\* order in which their keys first appeared and the tracks of a group in the
\* order they were in.
GroupedByKey ==
    (JustEnded("group") /\ opts.grouping # "") =>
        /\ \A k \in 1..Len(entries) : IsSet(entries[k], opts.grouping)
        /\ SameTracksAsBefore
        /\ \A k, l \in 1..Len(entries) :
              k < l =>
                 IF LowerKey(k, opts.grouping) = LowerKey(l, opts.grouping)
                 THEN /\ InPriorOrder(k, l)
                      /\ \A m \in k..l : LowerKey(m, opts.grouping) = LowerKey(k, opts.grouping)
                 ELSE FirstBefore(k, opts.grouping) < FirstBefore(l, opts.grouping)

\* Three tracks with keys a, c, a (one of the albums written A): the third
\* has moved in front of the second.
GroupedByKeyWitness ==
    /\ JustEnded("group")
    /\ opts.grouping = "album"
    /\ Len(entries) = 3
    /\ entries[1].album # entries[2].album
    /\ LowerKey(1, "album") = LowerKey(2, "album")
    /\ LowerKey(3, "album") # LowerKey(1, "album")
    /\ PositionBefore(entries[2].origin) = 3

\* The round in which the entry at position k is taken: one more than the
\* number of entries of its key that were before it when the stage started.
Round(k, prop) ==
    1 + Cardinality({m \in 1..Len(entries) :
                        /\ LowerKey(m, prop) = LowerKey(k, prop)
                        /\ PositionBefore(entries[m].origin) < PositionBefore(entries[k].origin)})

\* C17: when the alternate stage ends with alternating set to a property,
\* the property is set on every track and the queue holds the same tracks
\* round by round: in each round the next track of every key that has one
\* left, the keys in the order of their first appearance, so that the
\* tracks of one key stay in the order they were in.
AlternatedByKey ==
    (JustEnded("alternate") /\ opts.alternating # "") =>
        /\ \A k \in 1..Len(entries) : IsSet(entries[k], opts.alternating)
        /\ SameTracksAsBefore
        /\ \A k, l \in 1..Len(entries) :
              k < l =>
                 \/ Round(k, opts.alternating) < Round(l, opts.alternating)
                 \/ /\ Round(k, opts.alternating) = Round(l, opts.alternating)
                    /\ FirstBefore(k, opts.alternating) < FirstBefore(l, opts.alternating)

\* Three tracks with keys x, x, y: the third has moved between the two.
AlternatedByKeyWitness ==
    /\ JustEnded("alternate")
    /\ opts.alternating = "album"
    /\ Len(entries) = 3
    /\ LowerKey(1, "album") = LowerKey(3, "album")
    /\ LowerKey(2, "album") # LowerKey(1, "album")
    /\ PositionBefore(entries[2].origin) = 3
    /\ PositionBefore(entries[3].origin) = 2

\* The number of tracks in a queue and the queues nested in it.
RECURSIVE TrackCount(_)
TrackCount(q) ==
    IF Len(q) = 0 THEN 0
    ELSE (IF q[1].kind = "queue" THEN TrackCount(q[1].queue) ELSE 1) + TrackCount(Tail(q))

\* C18: the queue getTracks leaves after flattening holds no queue; it holds
\* every track of the nested queues, in the order in which the tracks were
\* put into them, and is the concatenation of the flattened sub-queues.
FlattenConcatenates ==
    cpc = "flatten" =>
        /\ \A k \in 1..Len(entries) : entries[k].kind = "track"
        /\ Len(entries) = TrackCount(sources)
        /\ Origins(entries) = [k \in 1..Len(entries) |-> k]
        /\ entries = Concat([i \in 1..Len(sources) |->
                                IF sources[i].kind = "queue" THEN Flatten(sources[i].queue)
                                ELSE <<sources[i]>>])

\* A queue that holds a queue that holds a queue, and three tracks in all.
FlattenConcatenatesWitness ==
    /\ cpc = "flatten"
    /\ Len(entries) = 3
    /\ \E i \in 1..Len(sources) :
          /\ sources[i].kind = "queue"
          /\ \E j \in 1..Len(sources[i].queue) : sources[i].queue[j].kind = "queue"
    /\ \E i \in 1..Len(sources) : sources[i].kind = "track"

(***************************************************************************)
(* Properties of Similar.                                                  *)
(***************************************************************************)

\* The queues of the Top entries that resolved, in the order of the entries.
TopQueues ==
    LET r == SelectSeq(sources, LAMBDA e : e.stage = "resolved")
    IN  [i \in 1..Len(r) |-> r[i].queue]

\* The places <<i, j>> of the tracks in the Top entries' queues.
TopPlaces == UNION {{<<i, j>> : j \in 1..Len(TopQueues[i])} : i \in 1..Len(TopQueues)}

PlaceOf(t) == CHOOSE c \in TopPlaces : TopQueues[c[1]][c[2]].id = t.id

\* C19: the queue Similar.dispatch resolves with holds the tracks of the
\* related artists' top-track queues, each once, ordered by their rank in
\* their artist's queue and, among tracks of the same rank, by the place of
\* the artist among the related artists; every artist's queue is in
\* descending order of popularity.
SimilarInterleaves ==
    cpc = "done" =>
        /\ \A i \in 1..Len(sources) : sources[i].id = catalog.related[i].id
        /\ \A i \in 1..Len(TopQueues) : \A j, k \in 1..Len(TopQueues[i]) :
              j < k => TopQueues[i][j].popularity[1] >= TopQueues[i][k].popularity[1]
        /\ Len(entries) = Cardinality(TopPlaces)
        /\ \A c \in TopPlaces : \E p \in 1..Len(entries) : entries[p] = TopQueues[c[1]][c[2]]
        /\ \A p, q \in 1..Len(entries) :
              p < q => LET a == PlaceOf(entries[p])
                           b == PlaceOf(entries[q])
                       IN  a[2] < b[2] \/ (a[2] = b[2] /\ a[1] < b[1])

\* Three related artists with three, one and two top tracks: the result
\* takes one track of each, then one of the first and the third, then the
\* last of the first.
SimilarInterleavesWitness ==
    /\ cpc = "done"
    /\ Len(sources) = 3
    /\ sources[1].id = <<"a">> /\ sources[2].id = <<"b">>
    /\ Len(entries) = 6
    /\ [p \in 1..6 |-> entries[p].origin] = <<1, 2, 3, 1, 3, 1>>

\* The related artists a track of the result comes from.
ArtistsDrawn == {entries[p].origin : p \in 1..Len(entries)}

\* C20: the queue Similar.dispatch resolves with holds tracks of at most
\* artistLimit related artists and at most trackLimit tracks of each.
SimilarBounds ==
    cpc = "done" =>
        /\ Cardinality(ArtistsDrawn) <= trk.artistLimit
        /\ \A o \in ArtistsDrawn :
              Cardinality({p \in 1..Len(entries) : entries[p].origin = o}) <= trk.trackLimit

\* The part of the bounds that holds: at most artistLimit related artists,
\* the first ones of the list.
SimilarArtistBound ==
    cpc = "done" =>
        /\ Cardinality(ArtistsDrawn) <= trk.artistLimit
        /\ \A o \in ArtistsDrawn : o <= trk.artistLimit

(***************************************************************************)
(* Properties of the entries dispatched on their own.                      *)
(***************************************************************************)

\* The tracks of the albums an artist dispatched, album after album.
RECURSIVE AlbumQueueTracks(_)
AlbumQueueTracks(albums) ==
    IF Len(albums) = 0 THEN <<>>
    ELSE (IF albums[1].stage = "resolved" THEN albums[1].queue ELSE <<>>)
         \o AlbumQueueTracks(Tail(albums))

\* The track has an artist of that name, compared without regard to case
\* and surrounding whitespace.
HasArtistNamed(t, name) ==
    \E i \in 1..Len(t.artists) : ToLower(Trim(t.artists[i])) = ToLower(Trim(name))

\* The track has an artist whose name contains the name, compared without
\* regard to case.
HasArtistContaining(t, name) ==
    \E i \in 1..Len(t.artists) :
        \E j, k \in 1..Len(t.artists[i]) :
            ToLower(SubSeq(t.artists[i], j, k)) = ToLower(Trim(name))

\* The name of the artist whose albums the catalog lists.
TargetArtistName == <<"A">>

\* The stated rule: every track of the queue of an Artist has the artist
\* among its artists, however the artist was identified.
ArtistGuestTracksRemoved ==
    trk.kind = "artist" /\ cpc = "resolved" =>
        \A k \in 1..Len(entries) : HasArtistNamed(entries[k], TargetArtistName)

\* C21: when the artist was found by a search, and so has a name, the queue
\* of an Artist holds the tracks of its albums that have an artist whose
\* name contains that name, without regard to case, in their order; when the
\* artist has no name (it was given by identifier, or the entry string was
\* taken for one) the queue holds every track of the albums.
ArtistFilterRule ==
    trk.kind = "artist" /\ cpc = "resolved" =>
        LET tracks == AlbumQueueTracks(trk.albumQueue)
        IN  IF trk.name # <<>>
            THEN entries = SelectSeq(tracks, LAMBDA t : HasArtistContaining(t, trk.name))
            ELSE entries = tracks

\* An artist found by search whose album has three tracks: the track of
\* another artist is removed, the track of an artist whose name contains
\* the artist's name is kept.
ArtistFilterRuleWitness ==
    /\ trk.kind = "artist" /\ cpc = "resolved"
    /\ trk.name = <<"A">>
    /\ Len(AlbumQueueTracks(trk.albumQueue)) = 3
    /\ Len(entries) = 2
    /\ entries[2].artists = << <<"b", " ", "a">> >>

\* The rank of an album: its type, then its popularity.
AlbumRankedBefore(x, y) ==
    LET px == catalog.album[x.id].popularity[1]
        py == catalog.album[y.id].popularity[1]
    IN  \/ TypeScore(x) > TypeScore(y)
        \/ TypeScore(x) = TypeScore(y) /\ px > py

\* The artist's complete album list by rank, albums of the same rank in the
\* order of the list.
RankedAlbums ==
    LET list == catalog.albums
        at == CHOOSE f \in Shuffles([i \in 1..Len(list) |-> i]) :
                 \A i, j \in 1..Len(list) :
                    i < j => \/ AlbumRankedBefore(list[f[i]], list[f[j]])
                             \/ ~AlbumRankedBefore(list[f[j]], list[f[i]]) /\ f[i] < f[j]
    IN  [i \in 1..Len(list) |-> list[at[i]]]

\* The limit of an entry as a number of items of a list of that length.
LimitOf(e, len) == IF e.limit = None \/ e.limit = Some(0) THEN len ELSE e.limit[1]

\* C22: an Artist whose album list the catalog has returned completely is
\* not rejected for it, and the albums it dispatches are the first `limit`
\* albums of the complete list by rank: type, then descending popularity.
ArtistAlbumRanking ==
    trk.kind = "artist" =>
        /\ cpc = "rejected" =>
              ~last.ok \/ ("next" \notin DOMAIN last /\ last.items = <<>>)
        /\ cpc = "resolved" =>
              [i \in 1..Len(trk.albumQueue) |-> trk.albumQueue[i].id]
                 = [i \in 1..Len(Slice(RankedAlbums, 0, LimitOf(trk, Len(RankedAlbums)))) |->
                      RankedAlbums[i].id]

\* The place of a catalog object in a list, by its id.
PlaceIn(list, id) == CHOOSE i \in 1..Len(list) : list[i].id = id

\* Track x of the list comes before track y by popularity, tracks of equal
\* popularity in the order of the list.
TopRankedBefore(list, x, y) ==
    \/ list[x].popularity[1] > list[y].popularity[1]
    \/ list[x].popularity[1] = list[y].popularity[1] /\ x < y

\* The queue is the first `limit` tracks of the artist's top tracks by
\* popularity.
IsTopOfRanking(q, list, limit) ==
    LET at == [k \in 1..Len(q) |-> PlaceIn(list, q[k].id)]
    IN  /\ Len(q) = IF limit < Len(list) THEN limit ELSE Len(list)
        /\ \A k \in 1..Len(q) : \E i \in 1..Len(list) : list[i].id = q[k].id
        /\ \A j, k \in 1..Len(q) : j < k => TopRankedBefore(list, at[j], at[k])
        /\ \A i \in 1..Len(list) :
              (\A k \in 1..Len(q) : at[k] # i) =>
                  \A k \in 1..Len(q) : TopRankedBefore(list, at[k], i)

\* C23: a Top entry with an id starts with the request for the top tracks
\* of that id, one without starts with a search for the artist; the top
\* tracks requested are those of the entry's id, and the queue it resolves
\* with is the first `limit` of them by descending popularity, tracks of
\* equal popularity in catalog order.
TopTracksRanked ==
    /\ [][trk.kind = "top" /\ cpc = "new" =>
             reqs' = IF trk.id # <<>>
                     THEN <<[op |-> "getArtistTopTracks", q |-> trk.id]>>
                     ELSE <<[op |-> "searchArtists", q |-> trk.entry]>>]_vars
    /\ [](trk.kind = "top" /\ cpc = "resolved" =>
             /\ reqs[Len(reqs)] = [op |-> "getArtistTopTracks", q |-> trk.id]
             /\ IsTopOfRanking(entries, catalog.top[trk.id],
                               LimitOf(trk, Len(catalog.top[trk.id]))))

\* A Top entry without id and with limit 2 that searched for its artist and
\* resolved with the two most popular of three tracks, which the catalog
\* lists second and third.
TopTracksRankedWitness ==
    /\ trk.kind = "top" /\ cpc = "resolved"
    /\ reqs[1].op = "searchArtists"
    /\ trk.limit = Some(2)
    /\ [k \in 1..Len(entries) |-> entries[k].id] = << <<"a", "a">>, <<"a", "b">> >>

\* The requests of a list for a playlist's listing.
ListingRequests(list) == SelectSeq(list, LAMBDA r : r.op = "getPlaylistTracks")

\* The number of pages the catalog returns a list of that length in.
PagesOf(len) == IF len = 0 THEN 1 ELSE (len + PageSize - 1) \div PageSize

\* C24: a Playlist whose owner and id are both set starts with the request
\* for the first page of its listing, any other with a search for the entry
\* string; a search without hit or that fails rejects the entry, and the
\* first hit of one that succeeds gives the playlist its id and owner.  The
\* listing is requested page after page, each page from the number of items
\* received so far, and the queue of the playlist holds a Track for each of
\* the first `limit` items of the whole listing, in the order of the
\* listing, made from the playlist's entry string.
PlaylistListingRule ==
    /\ [][trk.kind = "playlist" /\ cpc = "new" =>
             reqs' = IF trk.id # <<>> /\ trk.owner # <<>>
                     THEN <<[op |-> "getPlaylistTracks",
                             q |-> [owner |-> trk.owner, id |-> trk.id], offset |-> None]>>
                     ELSE <<[op |-> "searchPlaylists", q |-> trk.entry]>>]_vars
    /\ [][trk.kind = "playlist" /\ trk.stage = "searchPlaylists" =>
             IF last'.ok /\ Len(last'.items) > 0
             THEN /\ trk'.id = last'.items[1].id
                  /\ trk'.owner = last'.items[1].owner
                  /\ reqs'[Len(reqs')] = [op |-> "getPlaylistTracks",
                                          q |-> [owner |-> trk'.owner, id |-> trk'.id],
                                          offset |-> None]
             ELSE cpc' = "rejected" /\ reqs' = reqs]_vars
    /\ [](trk.kind = "playlist" /\ cpc = "resolved" =>
             LET list == catalog.listing
                 asked == ListingRequests(reqs)
             IN  /\ Len(hist) = 1 =>
                       /\ Len(asked) = PagesOf(Len(list))
                       /\ \A k \in 1..Len(asked) :
                             /\ asked[k].q = [owner |-> trk.owner, id |-> trk.id]
                             /\ asked[k].offset =
                                   IF k = 1 THEN None ELSE Some((k - 1) * PageSize)
                 /\ Len(entries) = IF LimitOf(trk, Len(list)) < Len(list)
                                   THEN LimitOf(trk, Len(list)) ELSE Len(list)
                 /\ \A k \in 1..Len(entries) :
                       /\ entries[k].kind = "track"
                       /\ entries[k].id = list[k].id
                       /\ entries[k].uri = list[k].uri
                       /\ entries[k].name = list[k].name
                       /\ entries[k].entry = trk.entry)

\* A Playlist without owner that was searched for, whose listing of three
\* items came in two pages, and that resolved with the first two.
PlaylistListingRuleWitness ==
    /\ trk.kind = "playlist" /\ cpc = "resolved" /\ Len(hist) = 1
    /\ reqs[1].op = "searchPlaylists"
    /\ Len(catalog.listing) = 3
    /\ Len(ListingRequests(reqs)) = 2
    /\ trk.limit = Some(2)
    /\ Len(entries) = 2

\* C25: an Album with an id resolves with a Track for each of the first
\* `limit` items of the track list the catalog returned for it, in the order
\* of that list, each made from the album's entry string and with the
\* album's name as its album.
AlbumListingRule ==
    trk.kind = "album" /\ cpc = "resolved" =>
        LET body == last.items[1]
            list == body.items
        IN  /\ trk.name = body.name
            /\ Len(entries) = IF LimitOf(trk, Len(list)) < Len(list)
                              THEN LimitOf(trk, Len(list)) ELSE Len(list)
            /\ \A k \in 1..Len(entries) :
                  /\ entries[k].kind = "track"
                  /\ entries[k].id = list[k].id
                  /\ entries[k].uri = list[k].uri
                  /\ entries[k].name = list[k].name
                  /\ entries[k].entry = trk.entry
                  /\ entries[k].album = body.name

\* An Album with limit 1 whose track list has two items, neither naming an
\* album, resolved with the first of them, tagged with the album's name.
AlbumListingRuleWitness ==
    /\ trk.kind = "album" /\ cpc = "resolved"
    /\ trk.limit = Some(1)
    /\ Len(last.items[1].items) = 2
    /\ last.items[1].items[1].album = <<>>
    /\ Len(entries) = 1
    /\ entries[1].album = <<"c">>

\* C26: a Track whose URI is set keeps it: no dispatch, search, property
\* fetch, fetch of the track, of its audio features or of its play counts
\* leaves the track with another URI or none.
TrackURIStable == [][trk.uri # <<>> => trk'.uri = trk.uri]_vars

\* A Track given by id whose URI came from the id, and onto which the body
\* of getTrack and that of getAudioFeaturesForTrack have been cloned, and
\* whose play counts have been fetched.
TrackURIStableWitness ==
    /\ trk.given.id # <<>>
    /\ trk.uri = TrackURI(trk.given.id)
    /\ trk.stage = "resolved"
    /\ trk.popularity # None
    /\ trk.tempo # None
    /\ trk.lastfm # None

RequestsOfSecondDispatch == SubSeq(reqs, hist[2] + 1, Len(reqs))

\* The requests for the entry's list of children among those of a list.
ListRequests(kind, list) ==
    SelectSeq(list, LAMBDA r :
        r.op = CASE kind = "album" -> "getAlbum"
                 [] kind = "artist" -> "getArtistAlbums"
                 [] OTHER -> "getPlaylistTracks")

\* An Album, Artist or Playlist dispatched a second time issues no request
\* for its list of children.
ChildListsFetchedOnce ==
    trk.kind \in {"album", "artist", "playlist"} /\ Len(hist) = 2 =>
        ListRequests(trk.kind, RequestsOfSecondDispatch) = <<>>

\* C28: an Album whose track list is set and an Artist whose album list is
\* set issue no request for that list when dispatched again, and resolve
\* with the queue of the first dispatch, made from the list kept; a
\* Playlist dispatched again requests every page of its listing again.
ChildListsCached ==
    Len(hist) = 2 =>
        /\ trk.kind = "album" =>
              /\ RequestsOfSecondDispatch = <<>>
              /\ cpc = "resolved" /\ entries = sources
        /\ trk.kind = "artist" =>
              /\ ListRequests("artist", RequestsOfSecondDispatch) = <<>>
              /\ \A k \in 1..Len(RequestsOfSecondDispatch) :
                    RequestsOfSecondDispatch[k].op # "searchArtists"
              /\ cpc = "resolved" => entries = sources
        /\ trk.kind = "playlist" =>
              /\ RequestsOfSecondDispatch # <<>>
              /\ cpc = "resolved" =>
                    /\ Len(ListRequests("playlist", RequestsOfSecondDispatch))
                          = PagesOf(Len(catalog.listing))
                    /\ entries = sources

\* An Artist with one album, dispatched a second time and resolved again
\* with the tracks of that album.
ChildListsCachedWitness ==
    /\ trk.kind = "artist" /\ Len(hist) = 2 /\ cpc = "resolved"
    /\ Len(trk.albums[1]) = 1
    /\ ListRequests("artist", reqs) # <<>>
    /\ RequestsOfSecondDispatch # <<>>
    /\ entries # <<>>

\* The ids of the objects of a list.
Ids(list) == [k \in 1..Len(list) |-> list[k].id]

\* The first `limit` items of a list, all of them without limit.
FirstOf(e, list) ==
    SubSeq(list, 1, IF LimitOf(e, Len(list)) < Len(list)
                    THEN LimitOf(e, Len(list)) ELSE Len(list))

\* The last answer was the last page of a list.
LastPageArrived == "next" \in DOMAIN last /\ last.ok /\ ~last.next

ForEachSequential ==
    /\ \A k \in 1..(Len(reqs) - 1) : reqs[k].result # "pending"
    /\ ppc.wait = 0 => \A k \in 1..Len(reqs) : reqs[k].result # "pending"
    /\ ppc.wait > 0 =>
          /\ reqs # <<>>
          /\ reqs[Len(reqs)].result = "pending"
          /\ reqs[Len(reqs)].req = [op |-> "getTrack", q |-> entries[ppc.wait].id]
          /\ \A j \in 1..Len(entries) :
                IF j < ppc.wait THEN entries[j].popularity # None
                ELSE entries[j].popularity = None

\* The second of three tracks waits for its fetch: that of the first has
\* succeeded and that of the third has not started.
ForEachSequentialWitness ==
    /\ Len(entries) = 3
    /\ ppc.wait = 2
    /\ Len(reqs) = 2
    /\ reqs[1].result = "succeeded" /\ reqs[1].req.q = entries[1].id
    /\ reqs[2].result = "pending"
    /\ entries[1].popularity # None
    /\ entries[3].popularity = None

-----------------------------------------------------------------------------
\* Failures of property fetches in the order, group and alternate stages.

FailedPropertyFetches == {i \in DOMAIN reqs : reqs[i].phase = "property" /\ reqs[i].result = "failed"}

-----------------------------------------------------------------------------
\* Failed requests of the catalog client.

RequestSettled == trk.kind = "request" /\ trk.stage \in {"resolved", "rejected"}

RetriesAfterRefresh == {i \in DOMAIN reqs : reqs[i].afterRefresh /\ reqs[i].scheme = "https"}

\* C32 as stated: a request whose first attempt failed as unauthorized
\* refreshes the token and sends the same request once more with the new
\* token (unless the refresh itself fails).
UnauthorizedRetriedOnce ==
    (RequestSettled /\ Len(reqs) >= 1 /\ reqs[1].status = 401 /\ trk.settledWith # "refresh") =>
        /\ trk.refreshes = 1
        /\ Cardinality(RetriesAfterRefresh) = 1
        /\ \A i \in RetriesAfterRefresh :
              reqs[i].op = reqs[1].op /\ reqs[i].authorization # reqs[1].authorization

\* The first attempt of the request was answered as not found: with status
\* 404, or with a response that lacks what the method looks for.
FirstAttemptNotFound ==
    /\ Len(reqs) >= 1
    /\ \/ reqs[1].status = 404
       \/ reqs[1].outcome = "body" /\ ~reqs[1].found

\* C35: a request answered as not found refreshes no token and makes no
\* second HTTP attempt, and it settles by rejecting to its caller.
NotFoundNotRetried ==
    (trk.kind = "request" /\ FirstAttemptNotFound) =>
        /\ trk.refreshes = 0
        /\ Len(reqs) = 1
        /\ RequestSettled => trk.stage = "rejected"

\* A request answered with status 404 that went through the catch handler
\* of request() and has rejected.
NotFoundNotRetriedWitness ==
    /\ RequestSettled
    /\ trk.stage = "rejected"
    /\ trk.caught
    /\ Len(reqs) = 1
    /\ reqs[1].status = 404

-----------------------------------------------------------------------------
\* The rendered list of URIs.

\* The lines of a text: the pieces between its line breaks.
RECURSIVE SplitLines(_, _)
SplitLines(s, line) ==
    IF Len(s) = 0 THEN <<line>>
    ELSE IF s[1] = "nl" THEN <<line>> \o SplitLines(Tail(s), <<>>)
    ELSE SplitLines(Tail(s), Append(line, s[1]))

\* The tracks of the queue that have a URI, in queue order.
ResolvedTracks(q) == SelectSeq(q, LAMBDA e : e.kind = "track" /\ e.uri # <<>>)

SourcesRejected == {i \in DOMAIN sources : sources[i].stage = "rejected"}

-----------------------------------------------------------------------------
\* util.paging.

\* The number of items of the first n pages received.
RECURSIVE ItemsReceived(_, _)
ItemsReceived(pages, n) == IF n = 0 THEN 0 ELSE Len(pages[n]) + ItemsReceived(pages, n - 1)

\* C34: util.paging asks for the first page without an offset and for every
\* further page from the number of items received so far; it asks for a
\* further page exactly when the latest page has a cursor; it resolves,
\* once a page has no cursor, with the items of all pages in the order of
\* the pages; a request that fails rejects it with no result at all; and
\* when every request settles and the catalog finally returns a page
\* without a cursor, it settles.
PagingToExhaustion ==
    /\ [](trk.stage # "new" =>
             /\ reqs[1].offset = None
             /\ \A k \in 2..Len(reqs) : reqs[k].offset = Some(ItemsReceived(hist, k - 1))
             /\ Len(reqs) = Len(hist) + (IF trk.stage = "resolved" THEN 0 ELSE 1))
    /\ [][trk.stage = "waiting" /\ last'.ok /\ last'.body =>
             IF last'.next THEN trk'.stage = "waiting" /\ Len(reqs') = Len(reqs) + 1
             ELSE trk'.stage = "resolved" /\ reqs' = reqs]_vars
    /\ [](trk.stage = "resolved" => trk.value = Some(Concat(hist)) /\ ~last.next)
    /\ [][trk.stage = "waiting" /\ ~(last'.ok /\ last'.body) => trk'.stage = "rejected"]_vars
    /\ [](trk.stage = "rejected" => trk.value = None)
    /\ <>(trk.stage \in {"resolved", "rejected"})

\* A listing received in MaxPages pages, the earlier ones of different
\* lengths, and resolved.
PagingToExhaustionWitness ==
    /\ trk.kind = "paging"
    /\ trk.stage = "resolved"
    /\ Len(hist) = MaxPages
    /\ Len(hist[1]) = 1
    /\ Len(hist[2]) = PageSize
    /\ hist[1] # hist[3]

-----------------------------------------------------------------------------
\* The reorder stage, and the membership of the queue after dedup.

\* Two sequences hold the same elements, each as often in one as in the other.
SameMembers(s, t) ==
    /\ Len(s) = Len(t)
    /\ \A i \in 1..Len(s) :
          Cardinality({j \in 1..Len(s) : s[j] = s[i]}) = Cardinality({j \in 1..Len(t) : t[j] = s[i]})

\* C36: when reverse is set, reorder leaves exactly the queue it found (the
\* one the alternate stage left) in reverse, whether or not shuffle is set;
\* when only shuffle is set it leaves a permutation of that queue; when
\* neither is set it leaves the queue as it is.  Nothing after it changes
\* the queue.
ReverseOverShuffle ==
    /\ [][ppc.next = "reorder" =>
             /\ hist[Len(hist)] = Event("alternate", "end")
             /\ IF opts.reverse
                THEN /\ Len(entries') = Len(entries)
                     /\ \A i \in 1..Len(entries) : entries'[i] = entries[Len(entries) + 1 - i]
                ELSE IF opts.shuffle THEN SameMembers(entries, entries')
                ELSE entries' = entries]_vars
    /\ [][ppc.next \in {"output", "done"} => entries' = entries]_vars

\* A queue of three tracks reversed by reorder although shuffle is set too.
ReverseOverShuffleWitness ==
    /\ ppc.next = "output"
    /\ opts.reverse /\ opts.shuffle
    /\ Len(entries) = 3
    /\ Origins(entries) = <<ppc.before[3], ppc.before[2], ppc.before[1]>>
    /\ Origins(entries) # ppc.before

\* What tells the tracks of a queue apart: the entry a track comes from and
\* its URI.
Members(q) == [k \in 1..Len(q) |-> <<q[k].origin, q[k].uri>>]

\* C37: from the end of the dedup stage on, every step leaves a queue that
\* holds the same tracks as before, each as often as before: order, group,
\* alternate, reverse and shuffle add, drop and duplicate nothing, each
\* stage ends with a permutation of the queue it started with, and the
\* final queue is a permutation of the deduped queue.
MembershipKept ==
    /\ [][ppc.next \notin {"dedup", "none"} => SameMembers(Members(entries), Members(entries'))]_vars
    /\ [](ppc.next \in {"group", "alternate", "reorder", "output", "done"} =>
             SameMembers(ppc.before, Origins(entries)))

\* An executed pipeline that ordered, grouped and alternated a queue of three
\* tracks, one of them twice in it, and shuffled it into another order.
MembershipKeptWitness ==
    /\ ppc.next = "done"
    /\ opts.ordering # "" /\ opts.grouping # "" /\ opts.alternating # ""
    /\ opts.shuffle /\ ~opts.reverse /\ ~opts.unique
    /\ Len(entries) = 3
    /\ \E i, j \in 1..3 : i # j /\ entries[i].uri = entries[j].uri
    /\ Origins(entries) # <<1, 2, 3>>

-----------------------------------------------------------------------------
\* The requests of one call of Track.searchTracks.

\* C38: one call of searchTracks makes at most six catalog requests; for a
\* track with an artist none of them is the fetch by identifier; for a
\* track with an id there is none at all and the call resolves at once; and
\* when every request settles, the call settles.
SearchTracksBounded ==
    /\ [](Len(reqs) <= 6)
    /\ [](trk.given.artist # <<>> => \A i \in 1..Len(reqs) : reqs[i].req.op = "searchTracks")
    /\ [](trk.given.id # <<>> => reqs = <<>> /\ trk.stage \in {"new", "resolved"})
    /\ [](trk.stage \in Settled => \A i \in 1..Len(reqs) : reqs[i].result # "pending")
    /\ <>(trk.stage \in Settled)

\* A track with an artist whose six searches all failed: the call rejected
\* without a fetch by identifier.
SearchTracksBoundedWitness ==
    /\ trk.given.artist # <<>>
    /\ trk.stage = "rejected"
    /\ Len(reqs) = 6
    /\ \A i \in 1..6 : reqs[i].result = "failed"

-----------------------------------------------------------------------------
\* A Similar entry whose seed artist's identifier is given.

\* C39 as stated: the dispatch of a Similar entry that was given the
\* identifier of its seed artist asks for no artist search, keeps the
\* identifier, and asks for the related artists of that identifier only.
SimilarKnownIdRespected ==
    (trk.kind = "similar" /\ trk.given # <<>>) =>
        /\ \A i \in 1..Len(reqs) : reqs[i].op # "searchArtists"
        /\ trk.id = trk.given
        /\ \A i \in 1..Len(reqs) :
              reqs[i].op = "getArtistRelatedArtists" => reqs[i].q = trk.given

-----------------------------------------------------------------------------
\* The queries of Artist.searchArtists.  An artist is searched for in its
\* first dispatch only: the second finds the id the first has set.

ArtistSearches == SelectSeq(reqs, LAMBDA r : r.op = "searchArtists")

\* C40 as stated: no two searches of one call of searchArtists have the
\* same query.
ArtistNoRepeatedQuery ==
    trk.kind = "artist" =>
        \A i, j \in 1..Len(ArtistSearches) : i # j => ArtistSearches[i].q # ArtistSearches[j].q

\* C40 amended: searchArtists searches for the name, and after a miss
\* searches for the same name once more; a third search is made only for
\* the simplified name, which is then neither empty nor the name itself;
\* there is no fourth search, and the searches come before every other
\* request; when nothing was found, albums are fetched only with the name as
\* identifier, after the name was searched for twice and its simplified form
\* was searched for or skipped, and only when the name looks like an
\* identifier.
ArtistQueriesRepeatName ==
    trk.kind = "artist" =>
        LET s == ArtistSearches
            simple == ToAscii(StripNoise(trk.entry))
        IN  /\ Len(s) <= 3
            /\ \A i \in 1..Len(s) : reqs[i].op = "searchArtists"
            /\ \A i \in 1..Len(s) : i <= 2 => s[i].q = trk.entry
            /\ Len(s) = 3 => s[3].q = simple /\ simple # <<>> /\ simple # trk.entry
            /\ (Len(s) > 0 /\ trk.name = <<>>) =>
                  \A i \in 1..Len(reqs) : reqs[i].op = "getArtistAlbums" =>
                      /\ reqs[i].q = trk.entry
                      /\ IsIdentifier(trk.entry)
                      /\ Len(s) >= 2
                      /\ Len(s) = 2 => simple = <<>> \/ simple = trk.entry

\* An artist whose name was searched for twice and then in its simplified
\* form, which found the artist.
ArtistQueriesRepeatNameWitness ==
    /\ trk.kind = "artist"
    /\ Len(ArtistSearches) = 3
    /\ ArtistSearches[1].q = ArtistSearches[2].q
    /\ ArtistSearches[3].q # ArtistSearches[1].q
    /\ trk.name # <<>>

=============================================================================
